---- MODULE Spec2Model ----
(***************************************************************************)
(* Orchestration and resilience core of the SAP automation service:        *)
(* the token-bucket rate limiter, the circuit breaker, the thread-local    *)
(* tenant context, the commit/rollback discipline of the domain modules    *)
(* and the two workflow orchestrators.                                     *)
(*                                                                         *)
(* Each component has its own state variables and its own specification    *)
(* (SpecRL, SpecRLConc, SpecCB, SpecCBConc, SpecTenant, SpecMod, SpecInv,  *)
(* SpecP2P); an action of one component leaves the others unchanged.       *)
(*                                                                         *)
(* Conventions.  Time is in whole seconds.  Token counts are kept in       *)
(* sixtieths of a token, so that refill_rate = requests_per_minute / 60.0  *)
(* tokens per second is the integer requests_per_minute units per second   *)
(* and one token is SecondsPerMinute units.  Names the sources use without *)
(* importing them (logger, datetime, List) are taken to resolve.           *)
(***************************************************************************)
EXTENDS Integers, Sequences, FiniteSets, TLC

\* ------------------------------------------------------------------ bounds
TestRpm == 2
StepSeconds == 15
MaxTicks == 3
MaxIdles == 1
MaxCalls == 2
MaxConcTicks == 1
MaxCBSteps == 4
MaxHist == 5
MaxBreakerCalls == 3
MaxReturnLen == 2
MaxTx == 2
MaxInvRuns == 2
MaxP2PRuns == 2
TicksPerSecond == 2
MaxMwTicks == 3
MaxDispatches == 62
MaxSapTicks == 1
MaxBatch == 4
MaxEvCalls == 2
MaxEvCleanups == 1
MaxEvIdles == 1
MaxConnectors == 3
MaxWinTicks == 5
MaxWinIdles == 1

\* ------------------------------------------------------- program constants
SecondsPerMinute == 60
InactiveSeconds == 3600
failure_threshold == 3
timeout == 60
SecondsPerDay == 86400
NoFailureYet == -1
MaxInvoiceAmount == 1000000
MaxInvoiceAgeDays == 365
VariancePercent == 5
manager_approval_above == 10000
tolerance_percent == 5
FallbackPercent == 10
AutoPayCeiling == 10000
DefaultRpm == 60

Clients == {"c1", "c2"}
NoBucket == [absent |-> TRUE]

Min(a, b) == IF a <= b THEN a ELSE b
Max(a, b) == IF a >= b THEN a ELSE b

VARIABLES
    \* RateLimiter, one caller at a time
    requests_per_minute, buckets, now, ticks, idles, rl_last

rlVars == <<requests_per_minute, buckets, now, ticks, idles, rl_last>>

VARIABLES
    \* RateLimiter under concurrent callers: the dict, the bucket objects it
    \* refers to, and each thread's position and locals inside is_allowed
    rc_buckets, rc_heap, rc_pc, rc_loc, rc_now, rc_ticks, rc_calls, rc_admitted

rcVars == <<rc_buckets, rc_heap, rc_pc, rc_loc, rc_now, rc_ticks, rc_calls, rc_admitted>>

VARIABLES
    \* CircuitBreaker, one caller at a time: the breaker's fields, the clock,
    \* the outcomes of the wrapped operations invoked so far, the last call
    breaker, cb_now, cb_steps, cb_hist, cb_last

cbVars == <<breaker, cb_now, cb_steps, cb_hist, cb_last>>

VARIABLES
    \* CircuitBreaker under concurrent callers: the shared fields, and each
    \* thread's position and locals inside call
    cc_breaker, cc_pc, cc_loc, cc_now, cc_ticks, cc_calls

ccVars == <<cc_breaker, cc_pc, cc_loc, cc_now, cc_ticks, cc_calls>>

VARIABLES
    \* TenantContext: the thread-local store of each worker thread, and each
    \* request's worker, position and what it read back
    _context, tc_worker, tc_pc, tc_seen

tcVars == <<_context, tc_worker, tc_pc, tc_seen>>

VARIABLES
    \* Domain modules: each module instance's transaction list, and the last
    \* operation run on one of them
    transactions, mod_last

modVars == <<transactions, mod_last>>

VARIABLES
    \* IntelligentInvoiceWorkflow: the coroutine's position, the extracted
    \* fields, the result dict, the collaborators called so far, the number
    \* of files processed, the transaction list of its fi_ap, and the
    \* collaborators that raised during the run
    inv_pc, inv_data, inv_result, inv_calls, inv_runs, inv_fi_ap, inv_failed

invVars == <<inv_pc, inv_data, inv_result, inv_calls, inv_runs, inv_fi_ap,
             inv_failed>>

VARIABLES
    \* ProcureToPayWorkflow: the position inside execute, self.status,
    \* self.documents, the transaction lists of its mm_po and fi_ap, the
    \* request, the summary, the statuses assigned so far, the number of
    \* instances made, the calls that reached the modules and the connector,
    \* what the verification of the invoice was given, and the operations
    \* that raised
    p2p_pc, p2p_status, p2p_documents, p2p_transactions, p2p_request,
    p2p_summary, p2p_hist, p2p_runs, p2p_calls, p2p_seen, p2p_failed

p2pVars == <<p2p_pc, p2p_status, p2p_documents, p2p_transactions, p2p_request,
             p2p_summary, p2p_hist, p2p_runs, p2p_calls, p2p_seen, p2p_failed>>

VARIABLES
    \* RateLimitMiddleware with its default limiter, one client: the client's
    \* bucket, the clock in ticks of a second's TicksPerSecond-th, the
    \* requests dispatched since the bucket was made, when it was made, and
    \* the last response
    mw_bucket, mw_now, mw_ticks, mw_calls, mw_first, mw_last

mwVars == <<mw_bucket, mw_now, mw_ticks, mw_calls, mw_first, mw_last>>

VARIABLES
    \* the module-level breaker next to the domain modules: the breaker, the
    \* clock in seconds, the clock steps taken
    sap_circuit_breaker, sap_now, sap_ticks

sapVars == <<sap_circuit_breaker, sap_now, sap_ticks>>

VARIABLES
    \* the last batch_process call: its arguments, the calls of
    \* process_function it made, and what it returned
    bp_last

bpVars == <<bp_last>>

VARIABLES
    \* RateLimiter with is_allowed callers and a cleanup_old_buckets caller side
    \* by side: the dict (its keys in insertion order, the bucket object of each key), the
    \* bucket objects, the clock,
    \* each caller's position, locals and last result, the cleaner's locals, and
    \* the buckets deleted while in use
    ev_order, ev_dict, ev_heap, ev_now, ev_idles, ev_pc, ev_loc, ev_ret,
    ev_calls, ev_cl, ev_cleanups, ev_lost

evVars == <<ev_order, ev_dict, ev_heap, ev_now, ev_idles, ev_pc, ev_loc, ev_ret,
           ev_calls, ev_cl, ev_cleanups, ev_lost>>

VARIABLES
    \* TenantManager: the connectors made so far and the last get_connector call
    tm_connectors, tm_last

tmVars == <<tm_connectors, tm_last>>

VARIABLES
    \* one client of the RateLimiter with the times of its admitted calls
    win_bucket, win_now, win_ticks, win_idles, win_admitted

winVars == <<win_bucket, win_now, win_ticks, win_idles, win_admitted>>

vars == <<rlVars, rcVars, cbVars, ccVars, tcVars, modVars, invVars, p2pVars,
          mwVars, sapVars, bpVars,
          evVars,
          tmVars,
          winVars>>

\* What the actions of one component leave alone.
notRL == <<rcVars, cbVars, ccVars, tcVars, modVars, invVars, p2pVars,
          mwVars, sapVars, bpVars,
          evVars,
          tmVars,
          winVars>>
notRC == <<rlVars, cbVars, ccVars, tcVars, modVars, invVars, p2pVars,
          mwVars, sapVars, bpVars,
          evVars,
          tmVars,
          winVars>>
notCB == <<rlVars, rcVars, ccVars, tcVars, modVars, invVars, p2pVars,
          mwVars, sapVars, bpVars,
          evVars,
          tmVars,
          winVars>>
notCC == <<rlVars, rcVars, cbVars, tcVars, modVars, invVars, p2pVars,
          mwVars, sapVars, bpVars,
          evVars,
          tmVars,
          winVars>>
notTC == <<rlVars, rcVars, cbVars, ccVars, modVars, invVars, p2pVars,
          mwVars, sapVars, bpVars,
          evVars,
          tmVars,
          winVars>>
notMod == <<rlVars, rcVars, cbVars, ccVars, tcVars, invVars, p2pVars,
          mwVars, sapVars, bpVars,
          evVars,
          tmVars,
          winVars>>
notInv == <<rlVars, rcVars, cbVars, ccVars, tcVars, modVars, p2pVars,
          mwVars, sapVars, bpVars,
          evVars,
          tmVars,
          winVars>>
notP2P == <<rlVars, rcVars, cbVars, ccVars, tcVars, modVars, invVars,
          mwVars, sapVars, bpVars,
          evVars,
          tmVars,
          winVars>>
notMw == <<rlVars, rcVars, cbVars, ccVars, tcVars, modVars, invVars, p2pVars,
          sapVars, bpVars,
          evVars,
          tmVars,
          winVars>>
notSap == <<rlVars, rcVars, cbVars, ccVars, tcVars, invVars, p2pVars, mwVars,
           bpVars,
          evVars,
          tmVars,
          winVars>>
notBp == <<rlVars, rcVars, cbVars, ccVars, tcVars, modVars, invVars, p2pVars,
          mwVars, sapVars,
          evVars,
          tmVars,
          winVars>>
notEv == <<rlVars, rcVars, cbVars, ccVars, tcVars, modVars, invVars, p2pVars,
          mwVars, sapVars,
          bpVars,
          tmVars,
          winVars>>
notTm == <<rlVars, rcVars, cbVars, ccVars, tcVars, modVars, invVars, p2pVars,
          mwVars, sapVars,
          bpVars,
          evVars,
          winVars>>
notWin == <<rlVars, rcVars, cbVars, ccVars, tcVars, modVars, invVars, p2pVars,
          mwVars, sapVars,
          bpVars,
          evVars,
          tmVars>>

(***************************************************************************)
(* RateLimiter / TokenBucket (api/middleware.py)                           *)
(***************************************************************************)

\* RateLimiter.__init__: capacity in tokens, refill_rate in units per second.
capacity == requests_per_minute
refill_rate == requests_per_minute

\* TokenBucket.__init__: a full bucket stamped with the current time.
TokenBucket(cap, rate, t) ==
    [capacity |-> cap, refill_rate |-> rate,
     tokens |-> cap * SecondsPerMinute, last_refill |-> t]

\* A refill that forgets the cap.
_refill_uncapped(b, t) ==
    [b EXCEPT !.tokens = b.tokens + (t - b.last_refill) * b.refill_rate,
              !.last_refill = t]

\* TokenBucket._refill at clock reading t.
_refill(b, t) ==
    [b EXCEPT !.tokens = Min(b.capacity * SecondsPerMinute,
                             b.tokens + (t - b.last_refill) * b.refill_rate),
              !.last_refill = t]

\* A consume that subtracts without looking.
consume_unchecked(b, t) ==
    LET r == _refill(b, t)
    IN  [bucket |-> [r EXCEPT !.tokens = r.tokens - SecondsPerMinute], ok |-> TRUE]

\* TokenBucket.consume(1) at clock reading t: the bucket afterwards and the answer.
consume(b, t) ==
    LET r == _refill(b, t)
    IN  IF r.tokens >= SecondsPerMinute
        THEN [bucket |-> [r EXCEPT !.tokens = r.tokens - SecondsPerMinute], ok |-> TRUE]
        ELSE [bucket |-> r, ok |-> FALSE]

\* A waiting time of nothing, whatever the bucket holds.
get_wait_time_none(b) == <<0, 1>>

\* TokenBucket.get_wait_time, in sixtieths of a token per (unit per second):
\* the pair <<numerator, denominator>> of the waiting time in seconds.
get_wait_time(b) ==
    IF b.tokens >= SecondsPerMinute
    THEN <<0, 1>>
    ELSE <<SecondsPerMinute - b.tokens, b.refill_rate>>

RLInit ==
    /\ requests_per_minute = TestRpm
    /\ buckets = [c \in Clients |-> NoBucket]
    /\ now = 0
    /\ ticks = 0
    /\ idles = 0
    /\ rl_last = [op |-> "none"]

\* RateLimiter.is_allowed(c): the bucket is created on first use.
is_allowed(c) ==
    LET b0 == IF buckets[c] = NoBucket
              THEN TokenBucket(capacity, refill_rate, now)
              ELSE buckets[c]
        r  == consume(b0, now)
    IN  /\ buckets' = [buckets EXCEPT ![c] = r.bucket]
        /\ rl_last' = [op |-> "is_allowed", client |-> c, ret |-> r.ok,
                       created |-> (buckets[c] = NoBucket)]
        /\ UNCHANGED <<requests_per_minute, now, ticks, idles>>

\* RateLimiter.get_retry_after(c).
get_retry_after(c) ==
    /\ rl_last' = [op |-> "get_retry_after", client |-> c, at |-> now,
                   ret |-> IF buckets[c] = NoBucket THEN <<0, 1>>
                           ELSE get_wait_time(buckets[c])]
    /\ UNCHANGED <<requests_per_minute, buckets, now, ticks, idles>>

\* RateLimiter.cleanup_old_buckets.
cleanup_old_buckets ==
    LET to_remove == {c \in Clients : /\ buckets[c] # NoBucket
                                      /\ (now - buckets[c].last_refill) > InactiveSeconds}
    IN  /\ buckets' = [c \in Clients |-> IF c \in to_remove THEN NoBucket ELSE buckets[c]]
        /\ rl_last' = [op |-> "cleanup_old_buckets", removed |-> to_remove]
        /\ UNCHANGED <<requests_per_minute, now, ticks, idles>>

\* time.time() moves on by a short step.
RLTick ==
    /\ ticks < MaxTicks
    /\ ticks' = ticks + 1
    /\ now' = now + StepSeconds
    /\ UNCHANGED <<requests_per_minute, buckets, idles, rl_last>>

\* time.time() moves on past the inactivity window.
RLIdle ==
    /\ idles < MaxIdles
    /\ idles' = idles + 1
    /\ now' = now + InactiveSeconds + 1
    /\ UNCHANGED <<requests_per_minute, buckets, ticks, rl_last>>

RLNext ==
    \/ \E c \in Clients : is_allowed(c) /\ UNCHANGED notRL
    \/ \E c \in Clients : get_retry_after(c) /\ UNCHANGED notRL
    \/ cleanup_old_buckets /\ UNCHANGED notRL
    \/ RLTick /\ UNCHANGED notRL
    \/ RLIdle /\ UNCHANGED notRL


(***************************************************************************)
(* RateLimiter.is_allowed called from several threads at once.  The code   *)
(* takes no lock, so a thread can be preempted between any two reads and   *)
(* writes of the shared dict and of a bucket's fields.  rc_heap holds the  *)
(* TokenBucket objects (a thread keeps its reference to one even after the *)
(* dict entry is replaced); rc_buckets maps a client to an index of        *)
(* rc_heap, 0 when the client has no entry.                                *)
(***************************************************************************)
Threads == {"t1", "t2"}

NoLocals == [client |-> "none", bucket |-> 0, l_now |-> 0, l_tokens |-> 0]

RCInit ==
    /\ rc_buckets = [c \in Clients |-> 0]
    /\ rc_heap = << >>
    /\ rc_pc = [t \in Threads |-> "idle"]
    /\ rc_loc = [t \in Threads |-> NoLocals]
    /\ rc_now = 0
    /\ rc_ticks = 0
    /\ rc_calls = [t \in Threads |-> 0]
    /\ rc_admitted = [c \in Clients |-> 0]

\* A thread enters is_allowed(c).
rc_call(t, c) ==
    /\ rc_pc[t] = "idle"
    /\ rc_calls[t] < MaxCalls
    /\ rc_calls' = [rc_calls EXCEPT ![t] = @ + 1]
    /\ rc_loc' = [rc_loc EXCEPT ![t] = [NoLocals EXCEPT !.client = c]]
    /\ rc_pc' = [rc_pc EXCEPT ![t] = "check_in"]
    /\ UNCHANGED <<rc_buckets, rc_heap, rc_now, rc_ticks, rc_admitted>>

\* `if client_id not in self.buckets`
rc_check_in(t) ==
    /\ rc_pc[t] = "check_in"
    /\ rc_pc' = [rc_pc EXCEPT ![t] = IF rc_buckets[rc_loc[t].client] = 0
                                     THEN "create" ELSE "lookup"]
    /\ UNCHANGED <<rc_buckets, rc_heap, rc_loc, rc_now, rc_ticks, rc_calls, rc_admitted>>

\* `self.buckets[client_id] = TokenBucket(...)`
rc_create(t) ==
    /\ rc_pc[t] = "create"
    /\ rc_heap' = Append(rc_heap, TokenBucket(TestRpm, TestRpm, rc_now))
    /\ rc_buckets' = [rc_buckets EXCEPT ![rc_loc[t].client] = Len(rc_heap) + 1]
    /\ rc_pc' = [rc_pc EXCEPT ![t] = "lookup"]
    /\ UNCHANGED <<rc_loc, rc_now, rc_ticks, rc_calls, rc_admitted>>

\* `bucket = self.buckets[client_id]`
rc_lookup(t) ==
    /\ rc_pc[t] = "lookup"
    /\ rc_loc' = [rc_loc EXCEPT ![t].bucket = rc_buckets[rc_loc[t].client]]
    /\ rc_pc' = [rc_pc EXCEPT ![t] = "refill_read"]
    /\ UNCHANGED <<rc_buckets, rc_heap, rc_now, rc_ticks, rc_calls, rc_admitted>>

\* _refill: `now = time.time()`, and the reads of last_refill and tokens.
rc_refill_read(t) ==
    LET b == rc_heap[rc_loc[t].bucket]
    IN  /\ rc_pc[t] = "refill_read"
        /\ rc_loc' = [rc_loc EXCEPT
                        ![t].l_now = rc_now,
                        ![t].l_tokens = b.tokens + (rc_now - b.last_refill) * b.refill_rate]
        /\ rc_pc' = [rc_pc EXCEPT ![t] = "refill_write"]
        /\ UNCHANGED <<rc_buckets, rc_heap, rc_now, rc_ticks, rc_calls, rc_admitted>>

\* _refill: the writes of tokens and last_refill.
rc_refill_write(t) ==
    LET i == rc_loc[t].bucket
        b == rc_heap[i]
    IN  /\ rc_pc[t] = "refill_write"
        /\ rc_heap' = [rc_heap EXCEPT
                         ![i].tokens = Min(b.capacity * SecondsPerMinute, rc_loc[t].l_tokens),
                         ![i].last_refill = rc_loc[t].l_now]
        /\ rc_pc' = [rc_pc EXCEPT ![t] = "check"]
        /\ UNCHANGED <<rc_buckets, rc_loc, rc_now, rc_ticks, rc_calls, rc_admitted>>

\* consume: `if self.tokens >= tokens`, returning False when it fails.
rc_check(t) ==
    /\ rc_pc[t] = "check"
    /\ rc_pc' = [rc_pc EXCEPT ![t] =
                    IF rc_heap[rc_loc[t].bucket].tokens >= SecondsPerMinute
                    THEN "sub_read" ELSE "idle"]
    /\ UNCHANGED <<rc_buckets, rc_heap, rc_loc, rc_now, rc_ticks, rc_calls, rc_admitted>>

\* consume: `self.tokens -= tokens`, the read.
rc_sub_read(t) ==
    /\ rc_pc[t] = "sub_read"
    /\ rc_loc' = [rc_loc EXCEPT ![t].l_tokens = rc_heap[rc_loc[t].bucket].tokens]
    /\ rc_pc' = [rc_pc EXCEPT ![t] = "sub_write"]
    /\ UNCHANGED <<rc_buckets, rc_heap, rc_now, rc_ticks, rc_calls, rc_admitted>>

\* consume: `self.tokens -= tokens`, the write, and `return True`.
rc_sub_write(t) ==
    /\ rc_pc[t] = "sub_write"
    /\ rc_heap' = [rc_heap EXCEPT ![rc_loc[t].bucket].tokens =
                                      rc_loc[t].l_tokens - SecondsPerMinute]
    /\ rc_admitted' = [rc_admitted EXCEPT ![rc_loc[t].client] = @ + 1]
    /\ rc_pc' = [rc_pc EXCEPT ![t] = "idle"]
    /\ UNCHANGED <<rc_buckets, rc_loc, rc_now, rc_ticks, rc_calls>>

\* time.time() moves on.
RCTick ==
    /\ rc_ticks < MaxConcTicks
    /\ rc_ticks' = rc_ticks + 1
    /\ rc_now' = rc_now + StepSeconds
    /\ UNCHANGED <<rc_buckets, rc_heap, rc_pc, rc_loc, rc_calls, rc_admitted>>

RCNext ==
    \/ \E t \in Threads, c \in Clients : rc_call(t, c) /\ UNCHANGED notRC
    \/ \E t \in Threads : rc_check_in(t) /\ UNCHANGED notRC
    \/ \E t \in Threads : rc_create(t) /\ UNCHANGED notRC
    \/ \E t \in Threads : rc_lookup(t) /\ UNCHANGED notRC
    \/ \E t \in Threads : rc_refill_read(t) /\ UNCHANGED notRC
    \/ \E t \in Threads : rc_refill_write(t) /\ UNCHANGED notRC
    \/ \E t \in Threads : rc_check(t) /\ UNCHANGED notRC
    \/ \E t \in Threads : rc_sub_read(t) /\ UNCHANGED notRC
    \/ \E t \in Threads : rc_sub_write(t) /\ UNCHANGED notRC
    \/ RCTick /\ UNCHANGED notRC

(***************************************************************************)
(* CircuitBreaker (core/circuit_breaker.py), one caller at a time.         *)
(* sap_circuit_breaker = CircuitBreaker(failure_threshold=3, timeout=60).  *)
(***************************************************************************)
Outcomes == {"ok", "fail"}

\* CircuitBreaker.__init__
CircuitBreaker ==
    [state |-> "closed", failures |-> 0, last_failure_time |-> NoFailureYet]

\* timedelta.seconds of a non-negative difference: the part below one day.
seconds(delta) == delta % SecondsPerDay

\* A reset test that never waits.
_should_attempt_reset_always(b, t) == TRUE

\* CircuitBreaker._should_attempt_reset at clock reading t.
_should_attempt_reset(b, t) ==
    IF b.last_failure_time = NoFailureYet
    THEN TRUE
    ELSE seconds(t - b.last_failure_time) >= timeout

\* A success handler that closes the breaker but keeps the failure count.
_on_success_keeps_count(b) == [b EXCEPT !.state = "closed"]

\* A success handler that clears the failure count but leaves the state.
_on_success_keeps_state(b) == [b EXCEPT !.failures = 0]

\* CircuitBreaker._on_success
_on_success(b) == [b EXCEPT !.failures = 0, !.state = "closed"]

\* A failure handler that starts the cooldown clock only while the breaker is
\* closed.
_on_failure_keeps_clock(b, t) ==
    LET f == b.failures + 1
    IN  [b EXCEPT !.failures = f,
                  !.last_failure_time = IF b.state = "closed" THEN t ELSE @,
                  !.state = IF f >= failure_threshold THEN "open" ELSE b.state]

\* A failure handler that opens the breaker one failure late.
_on_failure_late(b, t) ==
    LET f == b.failures + 1
    IN  [b EXCEPT !.failures = f,
                  !.last_failure_time = t,
                  !.state = IF f > failure_threshold THEN "open" ELSE b.state]

\* CircuitBreaker._on_failure at clock reading t.
_on_failure(b, t) ==
    LET f == b.failures + 1
    IN  [b EXCEPT !.failures = f,
                  !.last_failure_time = t,
                  !.state = IF f >= failure_threshold THEN "open" ELSE b.state]

\* A call whose rejection counts as a failure and restarts the cooldown.
call_counting_rejections(b, t, outcome) ==
    IF b.state = "open" /\ ~_should_attempt_reset(b, t)
    THEN [breaker |-> _on_failure(b, t), invoked |-> FALSE, raised |-> "circuit_open"]
    ELSE LET b1 == IF b.state = "open" THEN [b EXCEPT !.state = "half_open"] ELSE b
         IN  IF outcome = "ok"
             THEN [breaker |-> _on_success(b1), invoked |-> TRUE, raised |-> "none"]
             ELSE [breaker |-> _on_failure(b1, t), invoked |-> TRUE, raised |-> "func_error"]

\* CircuitBreaker.call(func) at clock reading t, func ending with `outcome`:
\* the breaker afterwards, whether func was invoked, and what the caller gets.
call(b, t, outcome) ==
    IF b.state = "open" /\ ~_should_attempt_reset(b, t)
    THEN [breaker |-> b, invoked |-> FALSE, raised |-> "circuit_open"]
    ELSE LET b1 == IF b.state = "open" THEN [b EXCEPT !.state = "half_open"] ELSE b
         IN  IF outcome = "ok"
             THEN [breaker |-> _on_success(b1), invoked |-> TRUE, raised |-> "none"]
             ELSE [breaker |-> _on_failure(b1, t), invoked |-> TRUE, raised |-> "func_error"]

CBInit ==
    /\ breaker = CircuitBreaker
    /\ cb_now = 0
    /\ cb_steps = 0
    /\ cb_hist = << >>
    /\ cb_last = [op |-> "none"]

\* One caller runs sap_circuit_breaker.call(func) to its end.
cb_call(outcome) ==
    LET r == call(breaker, cb_now, outcome)
    IN  /\ r.invoked => Len(cb_hist) < MaxHist
        /\ breaker' = r.breaker
        /\ cb_hist' = IF r.invoked THEN Append(cb_hist, outcome) ELSE cb_hist
        /\ cb_last' = [op |-> "call", invoked |-> r.invoked, raised |-> r.raised,
                       was |-> breaker.state, at |-> cb_now]
        /\ UNCHANGED <<cb_now, cb_steps>>

\* datetime.now() moves on: a short step, a whole cooldown, or a whole day.
CBTick(d) ==
    /\ cb_steps < MaxCBSteps
    /\ cb_steps' = cb_steps + 1
    /\ cb_now' = cb_now + d
    /\ UNCHANGED <<breaker, cb_hist, cb_last>>

CBNext ==
    \/ \E o \in Outcomes : cb_call(o) /\ UNCHANGED notCB
    \/ \E d \in {StepSeconds, timeout, SecondsPerDay} : CBTick(d) /\ UNCHANGED notCB

(***************************************************************************)
(* CircuitBreaker.call entered by several threads at once.  The breaker    *)
(* has no lock: the wrapped operation is a blocking remote call, and the   *)
(* reads and writes of state, failures and last_failure_time of different  *)
(* callers interleave.  cc_loc[t].trial records that t's operation was     *)
(* admitted through the half-open state.                                   *)
(***************************************************************************)
NoCallLocals == [trial |-> FALSE, l_failures |-> 0]

CCInit ==
    /\ cc_breaker = CircuitBreaker
    /\ cc_pc = [t \in Threads |-> "idle"]
    /\ cc_loc = [t \in Threads |-> NoCallLocals]
    /\ cc_now = 0
    /\ cc_ticks = 0
    /\ cc_calls = [t \in Threads |-> 0]

\* call: `if self.state == CircuitState.OPEN`
cc_enter(t) ==
    /\ cc_pc[t] = "idle"
    /\ cc_calls[t] < MaxBreakerCalls
    /\ cc_calls' = [cc_calls EXCEPT ![t] = @ + 1]
    /\ cc_loc' = [cc_loc EXCEPT ![t] =
                    [NoCallLocals EXCEPT !.trial = (cc_breaker.state = "half_open")]]
    /\ cc_pc' = [cc_pc EXCEPT ![t] = IF cc_breaker.state = "open"
                                     THEN "reset_check" ELSE "invoke"]
    /\ UNCHANGED <<cc_breaker, cc_now, cc_ticks>>

\* call: `if self._should_attempt_reset()`, else the circuit-open error.
cc_reset_check(t) ==
    /\ cc_pc[t] = "reset_check"
    /\ cc_pc' = [cc_pc EXCEPT ![t] = IF _should_attempt_reset(cc_breaker, cc_now)
                                     THEN "set_half_open" ELSE "idle"]
    /\ UNCHANGED <<cc_breaker, cc_loc, cc_now, cc_ticks, cc_calls>>

\* call: `self.state = CircuitState.HALF_OPEN`
cc_set_half_open(t) ==
    /\ cc_pc[t] = "set_half_open"
    /\ cc_breaker' = [cc_breaker EXCEPT !.state = "half_open"]
    /\ cc_loc' = [cc_loc EXCEPT ![t].trial = TRUE]
    /\ cc_pc' = [cc_pc EXCEPT ![t] = "invoke"]
    /\ UNCHANGED <<cc_now, cc_ticks, cc_calls>>

\* func returns; _on_success: `self.failures = 0`
cc_func_ok(t) ==
    /\ cc_pc[t] = "invoke"
    /\ cc_breaker' = [cc_breaker EXCEPT !.failures = 0]
    /\ cc_pc' = [cc_pc EXCEPT ![t] = "on_success_state"]
    /\ UNCHANGED <<cc_loc, cc_now, cc_ticks, cc_calls>>

\* _on_success: `self.state = CircuitState.CLOSED`
cc_on_success_state(t) ==
    /\ cc_pc[t] = "on_success_state"
    /\ cc_breaker' = [cc_breaker EXCEPT !.state = "closed"]
    /\ cc_pc' = [cc_pc EXCEPT ![t] = "idle"]
    /\ UNCHANGED <<cc_loc, cc_now, cc_ticks, cc_calls>>

\* func raises; _on_failure: `self.failures += 1`, the read.
cc_func_fail(t) ==
    /\ cc_pc[t] = "invoke"
    /\ cc_loc' = [cc_loc EXCEPT ![t].l_failures = cc_breaker.failures]
    /\ cc_pc' = [cc_pc EXCEPT ![t] = "on_failure_write"]
    /\ UNCHANGED <<cc_breaker, cc_now, cc_ticks, cc_calls>>

\* _on_failure: `self.failures += 1`, the write, and `self.last_failure_time = now`.
cc_on_failure_write(t) ==
    /\ cc_pc[t] = "on_failure_write"
    /\ cc_breaker' = [cc_breaker EXCEPT !.failures = cc_loc[t].l_failures + 1,
                                        !.last_failure_time = cc_now]
    /\ cc_pc' = [cc_pc EXCEPT ![t] = "on_failure_check"]
    /\ UNCHANGED <<cc_loc, cc_now, cc_ticks, cc_calls>>

\* _on_failure: `if self.failures >= self.failure_threshold: self.state = OPEN`
cc_on_failure_check(t) ==
    /\ cc_pc[t] = "on_failure_check"
    /\ cc_breaker' = [cc_breaker EXCEPT !.state =
                        IF cc_breaker.failures >= failure_threshold THEN "open" ELSE @]
    /\ cc_pc' = [cc_pc EXCEPT ![t] = "idle"]
    /\ UNCHANGED <<cc_loc, cc_now, cc_ticks, cc_calls>>

\* datetime.now() moves on by a cooldown.
CCTick ==
    /\ cc_ticks < MaxConcTicks
    /\ cc_ticks' = cc_ticks + 1
    /\ cc_now' = cc_now + timeout
    /\ UNCHANGED <<cc_breaker, cc_pc, cc_loc, cc_calls>>

CCNext ==
    \/ \E t \in Threads : cc_enter(t) /\ UNCHANGED notCC
    \/ \E t \in Threads : cc_reset_check(t) /\ UNCHANGED notCC
    \/ \E t \in Threads : cc_set_half_open(t) /\ UNCHANGED notCC
    \/ \E t \in Threads : cc_func_ok(t) /\ UNCHANGED notCC
    \/ \E t \in Threads : cc_on_success_state(t) /\ UNCHANGED notCC
    \/ \E t \in Threads : cc_func_fail(t) /\ UNCHANGED notCC
    \/ \E t \in Threads : cc_on_failure_write(t) /\ UNCHANGED notCC
    \/ \E t \in Threads : cc_on_failure_check(t) /\ UNCHANGED notCC
    \/ CCTick /\ UNCHANGED notCC

(***************************************************************************)
(* TenantContext (core/tenant_manager.py): class-level threading.local().  *)
(* A worker thread serves requests.  The handlers are coroutines           *)
(* (`async def create_invoice`), so the requests one thread serves         *)
(* interleave wherever a request awaits between setting its tenant and     *)
(* reading it back (the invoice workflow awaits its notifications before   *)
(* it posts, and posting writes the audit entry that calls get_tenant);    *)
(* they all share that thread's store.  Requests r1 and r2 belong to two   *)
(* tenants: each sets its tenant and reads it back further down its call   *)
(* chain.  Request r3 sets nothing and only reads (an audit entry written  *)
(* by a handler that names no tenant).                                     *)
(***************************************************************************)
Workers == {"w1", "w2"}
Requests == {"r1", "r2", "r3"}
SettingRequests == {"r1", "r2"}
TenantOf == [r \in SettingRequests |-> IF r = "r1" THEN "company_a" ELSE "company_b"]
None == "None"
Unset == [tenant_id |-> None, company_code |-> None]

\* TenantContext.set_tenant on the calling thread's store.
set_tenant(ctx, tenant_id, company_code) ==
    [ctx EXCEPT !.tenant_id = tenant_id, !.company_code = company_code]

\* TenantContext.get_tenant
get_tenant(ctx) == ctx.tenant_id

\* TenantContext.get_company_code
get_company_code(ctx) == ctx.company_code

TCInit ==
    /\ _context = [w \in Workers |-> Unset]
    /\ tc_worker = [r \in Requests |-> "none"]
    /\ tc_pc = [r \in Requests |-> "new"]
    /\ tc_seen = [r \in Requests |-> [read |-> FALSE]]

\* A request is handed to a worker thread.
tc_dispatch(r, w) ==
    /\ tc_pc[r] = "new"
    /\ tc_worker' = [tc_worker EXCEPT ![r] = w]
    /\ tc_pc' = [tc_pc EXCEPT ![r] = IF r \in SettingRequests THEN "set" ELSE "get"]
    /\ UNCHANGED <<_context, tc_seen>>

\* create_invoice: `TenantContext.set_tenant(tenant_id, tenant_id)`
tc_set_tenant(r) ==
    /\ tc_pc[r] = "set"
    /\ _context' = [_context EXCEPT ![tc_worker[r]] = set_tenant(@, TenantOf[r], TenantOf[r])]
    /\ tc_pc' = [tc_pc EXCEPT ![r] = "get"]
    /\ UNCHANGED <<tc_worker, tc_seen>>

\* Further down the request: get_tenant() and get_company_code().
tc_get_tenant(r) ==
    /\ tc_pc[r] = "get"
    /\ tc_seen' = [tc_seen EXCEPT ![r] =
                      [read |-> TRUE,
                       tenant_id |-> get_tenant(_context[tc_worker[r]]),
                       company_code |-> get_company_code(_context[tc_worker[r]])]]
    /\ tc_pc' = [tc_pc EXCEPT ![r] = "done"]
    /\ UNCHANGED <<_context, tc_worker>>

TCNext ==
    \/ \E r \in Requests, w \in Workers : tc_dispatch(r, w) /\ UNCHANGED notTC
    \/ \E r \in Requests : tc_set_tenant(r) /\ UNCHANGED notTC
    \/ \E r \in Requests : tc_get_tenant(r) /\ UNCHANGED notTC

(***************************************************************************)
(* Domain modules (core/base_module.py, modules/fi, modules/mm,            *)
(* modules/sd).  The connector is the remote system: a call either raises  *)
(* or returns a result whose RETURN entry is absent, one message (a dict)  *)
(* or a table of messages (a list), each with a severity TYPE.  An         *)
(* operation is modelled whole: what it returns or raises, the connector   *)
(* calls it made in order, and the records it appended to transactions.    *)
(***************************************************************************)
Modules == {"FI-AP", "MM-PO", "SD-SO"}
Severities == {"E", "A", "W", "S"}
ErrorSeverities == {"E", "A"}

\* Sequences over S of length at most n.
SeqsUpTo(S, n) == UNION {[1..k -> S] : k \in 0..n}

\* What connector.call_function can answer to a posting call.
Responses ==
    {[raises |-> TRUE, form |-> "absent", types |-> << >>]}
    \cup {[raises |-> FALSE, form |-> "absent", types |-> << >>]}
    \cup {[raises |-> FALSE, form |-> "dict", types |-> <<t>>] : t \in Severities}
    \cup {[raises |-> FALSE, form |-> "list", types |-> ts] :
              ts \in SeqsUpTo({"E", "A", "S"}, MaxReturnLen)}

\* What it can answer to BAPI_TRANSACTION_COMMIT / BAPI_TRANSACTION_ROLLBACK.
ControlResponses ==
    {[raises |-> TRUE, form |-> "absent", types |-> << >>],
     [raises |-> FALSE, form |-> "absent", types |-> << >>],
     [raises |-> FALSE, form |-> "dict", types |-> <<"E">>]}

\* What the read_table behind _vendor_exists / _customer_exists can answer.
Lookups == {"found", "empty", "raises"}

\* The document number the remote system assigns.
DocNumber == "5100000001"

Return(v) == [kind |-> "return", value |-> v]
Raise(at, what) == [kind |-> "raise", at |-> at, what |-> what]

\* BaseSAPModule.call_bapi on the connector's answer `resp` to the call named
\* `at`: the result, or the exception it lets through.
call_bapi(at, resp) ==
    IF resp.raises
    THEN Raise(at, "connector_error")
    ELSE IF resp.form = "dict" /\ resp.types[1] \in ErrorSeverities
         THEN Raise(at, "bapi_error")
         ELSE Return(resp)

\* BaseSAPModule.parse_sap_return_messages(...)['has_errors'] of the list the
\* callers build from RETURN: the table itself, or the one entry wrapped.
has_errors(resp) ==
    \E i \in 1..Len(resp.types) : resp.types[i] \in ErrorSeverities

\* A record of the transactions list.
SAPTransaction(module, status, doc) ==
    [module |-> module, status |-> status, sap_document_number |-> doc]

\* An except branch that swallows a failing rollback and re-raises the
\* original error.
except_rollback_quiet(err, calls, rollback) ==
    [ret |-> err, calls |-> Append(calls, "rollback"), logged |-> << >>]

\* The `except Exception` branch of a commit-bearing operation:
\* rollback_transaction(), then `raise`.  A rollback that raises replaces the
\* exception being handled.
except_rollback(err, calls, rollback) ==
    LET rb == call_bapi("rollback", rollback)
    IN  [ret |-> IF rb.kind = "raise" THEN rb ELSE err,
         calls |-> Append(calls, "rollback"),
         logged |-> << >>]

\* A try block that logs the record and returns the document number whether
\* or not the commit went through.
post_and_commit_unchecked(module, env) ==
    LET r == call_bapi("post", env.post)
    IN  IF r.kind = "raise"
        THEN except_rollback(r, <<"post">>, env.rollback)
        ELSE IF has_errors(env.post)
        THEN except_rollback(Raise("post", "posting_failed"), <<"post">>, env.rollback)
        ELSE [ret |-> Return(DocNumber),
              calls |-> <<"post", "commit">>,
              logged |-> <<SAPTransaction(module, "completed", DocNumber)>>]

\* The try block of create: the posting call, the check of its messages, the
\* commit, and the COMPLETED record.
post_and_commit(module, env) ==
    LET r == call_bapi("post", env.post)
    IN  IF r.kind = "raise"
        THEN except_rollback(r, <<"post">>, env.rollback)
        ELSE IF has_errors(env.post)
        THEN except_rollback(Raise("post", "posting_failed"), <<"post">>, env.rollback)
        ELSE LET c == call_bapi("commit", env.commit)
             IN  IF c.kind = "raise"
                 THEN except_rollback(c, <<"post", "commit">>, env.rollback)
                 ELSE [ret |-> Return(DocNumber),
                       calls |-> <<"post", "commit">>,
                       logged |-> <<SAPTransaction(module, "completed", DocNumber)>>]

\* create_goods_receipt / process_payment: the posting call, the commit, the
\* document number; no look at the messages of RETURN.
call_and_commit(env) ==
    LET r == call_bapi("post", env.post)
    IN  IF r.kind = "raise"
        THEN except_rollback(r, <<"post">>, env.rollback)
        ELSE LET c == call_bapi("commit", env.commit)
             IN  IF c.kind = "raise"
                 THEN except_rollback(c, <<"post", "commit">>, env.rollback)
                 ELSE [ret |-> Return(DocNumber), calls |-> <<"post", "commit">>,
                       logged |-> << >>]

\* What an operation without a remote call gives back.
no_remote_call(v) == [ret |-> Return(v), calls |-> << >>, logged |-> << >>]

\* The except branch of update and delete: rollback_transaction(), then
\* `return False`; only a rollback that raises still gets out.
returns_bool(r) ==
    IF r.ret.kind = "return" THEN [r EXCEPT !.ret = Return(TRUE)]
    ELSE IF r.ret.at = "rollback" THEN r
    ELSE [r EXCEPT !.ret = Return(FALSE)]

\* update: AccountsPayable refuses; PurchaseOrder and SalesOrder call the
\* change BAPI and commit without reading RETURN.
update(module, env) ==
    IF module = "FI-AP" THEN no_remote_call(FALSE)
    ELSE returns_bool(call_and_commit(env))

\* delete: PurchaseOrder and SalesOrder refuse; AccountsPayable posts the
\* reversal and hands [RETURN] to parse_sap_return_messages, whose msg.get
\* raises AttributeError when RETURN is itself a list.
delete(module, env) ==
    IF module # "FI-AP" THEN no_remote_call(FALSE)
    ELSE LET r == call_bapi("post", env.post)
         IN  returns_bool(
                IF r.kind = "raise"
                THEN except_rollback(r, <<"post">>, env.rollback)
                ELSE IF env.post.form = "list"
                THEN except_rollback(Raise("post", "attribute_error"),
                                     <<"post">>, env.rollback)
                ELSE IF has_errors(env.post)
                THEN except_rollback(Raise("post", "posting_failed"),
                                     <<"post">>, env.rollback)
                ELSE LET c == call_bapi("commit", env.commit)
                     IN  IF c.kind = "raise"
                         THEN except_rollback(c, <<"post", "commit">>, env.rollback)
                         ELSE [ret |-> Return(DocNumber),
                               calls |-> <<"post", "commit">>,
                               logged |-> << >>])

\* The operations besides create that post and commit, and the modules that
\* have them.
ModOps == {"update", "delete", "create_goods_receipt", "process_payment"}
HasOp(module, op) ==
    \/ op \in {"update", "delete"}
    \/ op = "create_goods_receipt" /\ module = "MM-PO"
    \/ op = "process_payment" /\ module = "FI-AP"

operation(op, module, env) ==
    CASE op = "update" -> update(module, env)
      [] op = "delete" -> delete(module, env)
      [] OTHER -> call_and_commit(env)

\* validate_data: the required fields, and for FI-AP and SD-SO the existence
\* of the vendor / customer, looked up only when the key is given; a lookup
\* that raises counts as not found.
validate_data(module, data, env) ==
    LET looks == module \in {"FI-AP", "SD-SO"} /\ data.has_partner
    IN  [is_valid |-> /\ data.fields_ok
                      /\ data.has_partner
                      /\ (looks => env.lookup = "found"),
         calls |-> IF looks THEN <<"read_table">> ELSE << >>]

\* AccountsPayable.create / PurchaseOrder.create / SalesOrder.create
create(module, data, env) ==
    LET v == validate_data(module, data, env)
    IN  IF ~v.is_valid
        THEN [ret |-> Raise("validate", "validation_error"),
              calls |-> v.calls, logged |-> << >>]
        ELSE LET r == post_and_commit(module, env)
             IN  [r EXCEPT !.calls = v.calls \o r.calls]

CreateData == [fields_ok : BOOLEAN, has_partner : BOOLEAN]

\* The answer of a call that is never made.
NotAsked == [raises |-> FALSE, form |-> "absent", types |-> << >>]

\* The answers the remote system can give to the calls of one create(): only
\* the calls the operation gets to make are drawn.
CreateEnvs(module, data) ==
    LET Commits(post) ==
            IF call_bapi("post", post).kind = "return" /\ ~has_errors(post)
            THEN ControlResponses ELSE {NotAsked}
        Rollbacks(post, commit) ==
            IF \/ call_bapi("post", post).kind = "raise"
               \/ has_errors(post)
               \/ call_bapi("commit", commit).kind = "raise"
            THEN ControlResponses ELSE {NotAsked}
        Posts(lookup) ==
            IF validate_data(module, data, [lookup |-> lookup]).is_valid
            THEN Responses ELSE {NotAsked}
        Looks == IF module \in {"FI-AP", "SD-SO"} /\ data.has_partner
                 THEN Lookups ELSE {"found"}
    IN  UNION {UNION {UNION {
            {[lookup |-> l, post |-> p, commit |-> c, rollback |-> r] :
                r \in Rollbacks(p, c)} :
            c \in Commits(p)} :
            p \in Posts(l)} :
            l \in Looks}

\* The answers the remote system can give to the calls of one operation:
\* only the calls the operation gets to make are drawn.
OpEnvs(op, module) ==
    LET Called(what, env) ==
            \E i \in 1..Len(operation(op, module, env).calls) :
                operation(op, module, env).calls[i] = what
        Posts ==
            IF Called("post", [post |-> NotAsked, commit |-> NotAsked,
                               rollback |-> NotAsked])
            THEN Responses ELSE {NotAsked}
        Commits(p) ==
            IF Called("commit", [post |-> p, commit |-> NotAsked,
                                 rollback |-> NotAsked])
            THEN ControlResponses ELSE {NotAsked}
        Rollbacks(p, c) ==
            IF Called("rollback", [post |-> p, commit |-> c,
                                   rollback |-> NotAsked])
            THEN ControlResponses ELSE {NotAsked}
    IN  UNION {UNION {
            {[post |-> p, commit |-> c, rollback |-> r] : r \in Rollbacks(p, c)} :
            c \in Commits(p)} :
            p \in Posts}

TotalLogged == Len(transactions["FI-AP"]) + Len(transactions["MM-PO"])
                   + Len(transactions["SD-SO"])

ModInit ==
    /\ transactions = [m \in Modules |-> << >>]
    /\ mod_last = [op |-> "none"]

\* One create() call on a module, run to its end.
mod_create(m) ==
    LET Last(data, env) ==
            LET r == create(m, data, env)
                posted == "post" \in {r.calls[i] : i \in 1..Len(r.calls)}
            IN  [logged |-> r.logged,
                 last |-> [op |-> "create", module |-> m,
                           ret |-> r.ret, calls |-> r.calls,
                           post_error |-> (posted /\ ~env.post.raises /\ has_errors(env.post)),
                           post_answered |-> (posted /\ ~env.post.raises),
                           rollback_fails |-> (call_bapi("rollback", env.rollback).kind = "raise"),
                           commit_fails |-> (call_bapi("commit", env.commit).kind = "raise"),
                           before |-> Len(transactions[m])]]
    IN  \E x \in UNION {{Last(data, env) : env \in CreateEnvs(m, data)} :
                        data \in CreateData} :
            /\ TotalLogged + Len(x.logged) <= MaxTx
            /\ transactions' = [transactions EXCEPT ![m] = @ \o x.logged]
            /\ mod_last' = x.last

\* One update(), delete(), create_goods_receipt() or process_payment() call
\* on a module, run to its end.
mod_operation(op, m) ==
    LET Last(env) ==
            LET r == operation(op, m, env)
                posted == "post" \in {r.calls[i] : i \in 1..Len(r.calls)}
            IN  [op |-> op, module |-> m,
                 ret |-> r.ret, calls |-> r.calls,
                 post_error |-> (posted /\ ~env.post.raises /\ has_errors(env.post)),
                 post_answered |-> (posted /\ ~env.post.raises),
                 rollback_fails |-> (call_bapi("rollback", env.rollback).kind = "raise"),
                 commit_fails |-> (call_bapi("commit", env.commit).kind = "raise"),
                 before |-> Len(transactions[m])]
    IN  /\ mod_last' \in {Last(env) : env \in OpEnvs(op, m)}
        /\ UNCHANGED transactions

ModNext ==
    \/ \E m \in Modules : mod_create(m) /\ UNCHANGED notMod
    \/ \E op \in ModOps : \E m \in Modules :
          HasOp(m, op) /\ mod_operation(op, m) /\ UNCHANGED notMod

(***************************************************************************)
(* IntelligentInvoiceWorkflow (workflows/invoice_processing_workflow.py)   *)
(* The coroutine process_invoice_file, one step per stage.  The OCR        *)
(* processor and the methods the class calls without defining them         *)
(* (_send_to_review_queue, get_or_create_vendor, _is_duplicate_invoice,    *)
(* _send_approval_notification, read_table) are collaborators that answer  *)
(* or raise.                                                               *)
(***************************************************************************)
CallOutcomes == {"ok", "raises"}

\* The extracted fields the workflow reads: presence of vendor,
\* invoice_number, vendor_code and po_number; the amount as absent, a text
\* float() rejects, or a number; the date as absent, a text the parser
\* rejects, or a date `age` days before today.
AmountValues == {-1, 0, 100, 1050, 1051, 10000, 10001, 20000, 2000000}
Amounts ==
    {[kind |-> "absent", v |-> 0], [kind |-> "text", v |-> 0]}
    \cup {[kind |-> "number", v |-> n] : n \in AmountValues}
DateAges == {-1, 0, 366}
Dates ==
    {[kind |-> "absent", age |-> 0], [kind |-> "text", age |-> 0]}
    \cup {[kind |-> "date", age |-> a] : a \in DateAges}
InvoiceData ==
    [vendor : BOOLEAN, invoice_number : BOOLEAN, date : Dates,
     amount : Amounts, vendor_code : BOOLEAN, po_number : BOOLEAN]

\* `not data.get(field)` for the amount and the date.
AmountFalsy(a) == a.kind = "absent" \/ (a.kind = "number" /\ a.v = 0)
DateFalsy(d) == d.kind = "absent"

\* The fields the `required` loop of _validate_invoice_data finds missing.
MissingRequired(data) ==
    (IF ~data.vendor THEN <<"Missing vendor">> ELSE << >>)
    \o (IF ~data.invoice_number THEN <<"Missing invoice_number">> ELSE << >>)
    \o (IF DateFalsy(data.date) THEN <<"Missing date">> ELSE << >>)
    \o (IF AmountFalsy(data.amount) THEN <<"Missing amount">> ELSE << >>)

\* Whether _validate_invoice_data gets to call _is_duplicate_invoice.
ChecksDuplicate(data) == data.invoice_number /\ data.vendor_code

\* _validate_invoice_data: the list of errors; is_valid is its emptiness.
\* `dup` is the answer of _is_duplicate_invoice where it is asked.
_validate_invoice_data(data, dup) ==
    MissingRequired(data)
    \o (IF AmountFalsy(data.amount) THEN << >>
        ELSE IF data.amount.kind = "text" THEN <<"Invalid amount format">>
        ELSE (IF data.amount.v <= 0 THEN <<"Amount must be positive">> ELSE << >>)
             \o (IF data.amount.v > MaxInvoiceAmount
                 THEN <<"Amount exceeds maximum threshold">> ELSE << >>))
    \o (IF DateFalsy(data.date) THEN << >>
        ELSE IF data.date.kind = "text" THEN <<"Invalid date format">>
        ELSE (IF data.date.age < 0 THEN <<"Invoice date is in the future">> ELSE << >>)
             \o (IF data.date.age > MaxInvoiceAgeDays
                 THEN <<"Invoice is over 1 year old">> ELSE << >>))
    \o (IF ChecksDuplicate(data) /\ dup = "duplicate"
        THEN <<"Duplicate invoice number">> ELSE << >>)

\* What mm_po.read can answer to _match_with_po: an exception, or the total
\* of the order's items.
PoTotals == {0, 96, 1000, 20000}
PoReads == {[raises |-> TRUE, total |-> 0]}
           \cup {[raises |-> FALSE, total |-> t] : t \in PoTotals}

\* A match that needs the variance to be under 5 percent.
_match_with_po_under(data, po) ==
    /\ ~po.raises
    /\ po.total # 0
    /\ LET d == po.total - data.amount.v
           diff == IF d < 0 THEN -d ELSE d
       IN  diff * 100 < VariancePercent * po.total

\* _match_with_po(...)['is_match']: the variance is within 5 percent; a read
\* that raises and a division by a zero total both end in the except branch.
_match_with_po(data, po) ==
    /\ ~po.raises
    /\ po.total # 0
    /\ LET d == po.total - data.amount.v
           diff == IF d < 0 THEN -d ELSE d
       IN  diff * 100 <= VariancePercent * po.total

\* _three_way_match(...)['is_match'] on the answer of read_table.
TableReads == {"rows", "empty", "raises"}
_three_way_match(gr_docs) == gr_docs = "rows"

\* An approval test that never asks for approval.
_requires_approval_never(data) == FALSE

\* An approval test that also asks for approval at the threshold itself.
_requires_approval_from(data) == data.amount.v >= manager_approval_above

\* _requires_approval
_requires_approval(data) == data.amount.v > manager_approval_above

\* The result dict of process_invoice_file at its creation.
NewResult ==
    [status |-> "processing", validation |-> "none", errors |-> << >>,
     po_match |-> [asked |-> FALSE], three_way_match |-> "none", approval |-> "none",
     sap_document |-> "none"]

\* The `except Exception` branch of process_invoice_file.
inv_except(result, what) ==
    [result EXCEPT !.status = "failed", !.errors = Append(@, what)]

InvInit ==
    /\ inv_pc = "idle"
    /\ inv_data = [none |-> TRUE]
    /\ inv_result = [status |-> "none"]
    /\ inv_calls = << >>
    /\ inv_runs = 0
    /\ inv_fi_ap = << >>
    /\ inv_failed = {}

\* A step of the coroutine: where it goes, the result dict and the calls made.
InvStep(pc, result, called) ==
    /\ inv_pc' = pc
    /\ inv_result' = result
    /\ inv_calls' = inv_calls \o called

\* process_invoice_file is called: lines 37-50.
inv_begin(data) ==
    /\ inv_pc \in {"idle", "done"}
    /\ inv_runs < MaxInvRuns
    /\ inv_runs' = inv_runs + 1
    /\ inv_data' = data
    /\ inv_pc' = "extract"
    /\ inv_result' = NewResult
    /\ inv_calls' = << >>
    /\ UNCHANGED inv_fi_ap
    /\ inv_failed' = {}

\* Steps 1 and 2: the OCR processor extracts the fields, or raises.
inv_extract(o) ==
    /\ inv_pc = "extract"
    /\ IF o = "raises"
       THEN InvStep("done", inv_except(inv_result, "extract"), <<"extract">>)
       ELSE InvStep("validate", inv_result, <<"extract">>)
    /\ UNCHANGED <<inv_data, inv_runs, inv_fi_ap>>
    /\ inv_failed' = IF o = "raises" THEN inv_failed \cup {"extract"} ELSE inv_failed

\* Step 3: validation; an invalid invoice gets its status and errors and goes
\* on to the review queue.
inv_validate(dup) ==
    /\ inv_pc = "validate"
    /\ (dup # "unique") => ChecksDuplicate(inv_data)
    /\ LET validation_errors == _validate_invoice_data(inv_data, dup)
           is_valid == validation_errors = << >>
           called == IF ChecksDuplicate(inv_data)
                     THEN <<"_is_duplicate_invoice">> ELSE << >>
       IN  IF dup = "raises"
           THEN InvStep("done", inv_except(inv_result, "_is_duplicate_invoice"), called)
           ELSE IF ~is_valid
           THEN InvStep("review_queue",
                        [inv_result EXCEPT !.validation = "invalid",
                                           !.status = "requires_manual_review",
                                           !.errors = @ \o validation_errors],
                        called)
           ELSE InvStep("vendor", [inv_result EXCEPT !.validation = "valid"], called)
    /\ UNCHANGED <<inv_data, inv_runs, inv_fi_ap>>
    /\ inv_failed' = IF dup = "raises" THEN inv_failed \cup {"_is_duplicate_invoice"} ELSE inv_failed

\* `await self._send_to_review_queue(...)`, then `return result`; the await
\* is inside the try block.
inv_send_to_review_queue(o) ==
    /\ inv_pc = "review_queue"
    /\ IF o = "raises"
       THEN InvStep("done", inv_except(inv_result, "_send_to_review_queue"),
                    <<"_send_to_review_queue">>)
       ELSE InvStep("done", inv_result, <<"_send_to_review_queue">>)
    /\ UNCHANGED <<inv_data, inv_runs, inv_fi_ap>>
    /\ inv_failed' = IF o = "raises" THEN inv_failed \cup {"_send_to_review_queue"} ELSE inv_failed

\* Step 4: fi_ap.get_or_create_vendor; its answer becomes the vendor_code.
inv_get_or_create_vendor(o) ==
    /\ inv_pc = "vendor"
    /\ IF o = "raises"
       THEN /\ InvStep("done", inv_except(inv_result, "get_or_create_vendor"),
                       <<"get_or_create_vendor">>)
            /\ UNCHANGED inv_data
       ELSE /\ InvStep(IF inv_data.po_number THEN "po_match" ELSE "approval_check",
                       inv_result, <<"get_or_create_vendor">>)
            /\ inv_data' = [inv_data EXCEPT !.vendor_code = TRUE]
    /\ UNCHANGED <<inv_runs, inv_fi_ap>>
    /\ inv_failed' = IF o = "raises" THEN inv_failed \cup {"get_or_create_vendor"} ELSE inv_failed

\* The dict _match_with_po returns: with the amounts where the order was
\* read and its total divided, with the reason alone otherwise.
PoMatch(data, po) ==
    IF po.raises \/ po.total = 0
    THEN [asked |-> TRUE, is_match |-> FALSE, compared |-> FALSE]
    ELSE [asked |-> TRUE, is_match |-> _match_with_po(data, po), compared |-> TRUE,
          po_amount |-> po.total, invoice_amount |-> data.amount.v]

\* Step 5: PO matching.
inv_match_with_po(po) ==
    /\ inv_pc = "po_match"
    /\ LET po_match == PoMatch(inv_data, po)
       IN  IF po_match.is_match
           THEN InvStep("three_way", [inv_result EXCEPT !.po_match = po_match],
                        <<"mm_po.read">>)
           ELSE InvStep("mismatch_approval",
                        [inv_result EXCEPT !.po_match = po_match,
                                           !.status = "po_mismatch",
                                           !.errors = Append(@, "PO mismatch")],
                        <<"mm_po.read">>)
    /\ UNCHANGED <<inv_data, inv_runs, inv_fi_ap>>
    /\ inv_failed' = IF po.raises THEN inv_failed \cup {"mm_po.read"} ELSE inv_failed

\* Step 6: 3-way match.
inv_three_way_match(gr_docs) ==
    /\ inv_pc = "three_way"
    /\ IF _three_way_match(gr_docs)
       THEN InvStep("approval_check", [inv_result EXCEPT !.three_way_match = "match"],
                    <<"read_table">>)
       ELSE InvStep("mismatch_approval",
                    [inv_result EXCEPT !.three_way_match = "mismatch",
                                       !.status = "three_way_mismatch",
                                       !.errors = Append(@, "3-way mismatch")],
                    <<"read_table">>)
    /\ UNCHANGED <<inv_data, inv_runs, inv_fi_ap>>
    /\ inv_failed' = IF gr_docs = "raises" THEN inv_failed \cup {"read_table"} ELSE inv_failed

\* `await self._request_approval(invoice_data, match)` after a mismatch, then
\* `return result`.
inv_mismatch_approval(o) ==
    /\ inv_pc = "mismatch_approval"
    /\ IF o = "raises"
       THEN InvStep("done", inv_except(inv_result, "_send_approval_notification"),
                    <<"_send_approval_notification">>)
       ELSE InvStep("done", inv_result, <<"_send_approval_notification">>)
    /\ UNCHANGED <<inv_data, inv_runs, inv_fi_ap>>
    /\ inv_failed' = IF o = "raises" THEN inv_failed \cup {"_send_approval_notification"} ELSE inv_failed

\* Step 7: an invoice that requires approval is sent for it, and the answer
\* is always `pending`; the others go on to posting.
inv_request_approval(o) ==
    /\ inv_pc = "approval_check"
    /\ IF ~_requires_approval(inv_data)
       THEN o = "ok" /\ InvStep("post", inv_result, << >>)
       ELSE IF o = "raises"
       THEN InvStep("done", inv_except(inv_result, "_send_approval_notification"),
                    <<"_send_approval_notification">>)
       ELSE InvStep("done",
                    [inv_result EXCEPT !.approval = "pending",
                                       !.status = "pending_approval"],
                    <<"_send_approval_notification">>)
    /\ UNCHANGED <<inv_data, inv_runs, inv_fi_ap>>
    /\ inv_failed' = IF o = "raises" THEN inv_failed \cup {"_send_approval_notification"} ELSE inv_failed

\* Step 8: _post_invoice_to_sap, that is fi_ap.create on the validated fields.
inv_post_invoice_to_sap ==
    /\ inv_pc = "post"
    /\ LET data == [fields_ok |-> TRUE, has_partner |-> inv_data.vendor_code]
       IN  \E env \in CreateEnvs("FI-AP", data) :
               LET r == create("FI-AP", data, env)
               IN  /\ inv_fi_ap' = inv_fi_ap \o r.logged
                   /\ inv_failed' = IF r.ret.kind = "raise"
                                    THEN inv_failed \cup {"fi_ap.create"}
                                    ELSE inv_failed
                   /\ IF r.ret.kind = "raise"
                      THEN InvStep("done", inv_except(inv_result, r.ret.what),
                                   <<"fi_ap.create">>)
                      ELSE InvStep("done",
                                   [inv_result EXCEPT !.sap_document = r.ret.value,
                                                      !.status = "completed"],
                                   <<"fi_ap.create">>)
    /\ UNCHANGED <<inv_data, inv_runs>>

InvNext ==
    \/ \E data \in InvoiceData : inv_begin(data) /\ UNCHANGED notInv
    \/ \E o \in CallOutcomes : inv_extract(o) /\ UNCHANGED notInv
    \/ \E dup \in {"unique", "duplicate", "raises"} : inv_validate(dup) /\ UNCHANGED notInv
    \/ \E o \in CallOutcomes : inv_send_to_review_queue(o) /\ UNCHANGED notInv
    \/ \E o \in CallOutcomes : inv_get_or_create_vendor(o) /\ UNCHANGED notInv
    \/ \E po \in PoReads : inv_match_with_po(po) /\ UNCHANGED notInv
    \/ \E gr_docs \in TableReads : inv_three_way_match(gr_docs) /\ UNCHANGED notInv
    \/ \E o \in CallOutcomes : inv_mismatch_approval(o) /\ UNCHANGED notInv
    \/ \E o \in CallOutcomes : inv_request_approval(o) /\ UNCHANGED notInv
    \/ inv_post_invoice_to_sap /\ UNCHANGED notInv

(***************************************************************************)
(* ProcureToPayWorkflow (workflows/procure_to_pay.py)                      *)
(* execute() on an instance of its own, one step per stage, so that the    *)
(* status other code can read through get_workflow_status is visible       *)
(* between the stages.                                                     *)
(***************************************************************************)
WorkflowStatus ==
    {"initiated", "po_created", "goods_received", "invoice_posted",
     "payment_processed", "completed", "failed"}

Urgencies == {"normal", "urgent", "emergency"}
TotalAmounts == {100, 10000, 10001, 10500, 11000, 20000}

\* ProcureToPayRequest: whether a vendor is given, whether the materials are
\* well formed, the amount and the urgency.
ProcureToPayRequest ==
    [vendor : BOOLEAN, materials_ok : BOOLEAN,
     total_amount : TotalAmounts, urgency : Urgencies]

\* A status that swaps the first two stages.
StatusAfterSwapped(step) ==
    CASE step = "create_po" -> "goods_received"
      [] step = "goods_receipt" -> "po_created"
      [] step = "post_invoice" -> "invoice_posted"
      [] step = "payment" -> "payment_processed"

\* The status execute() assigns after each stage.
StatusAfter(step) ==
    CASE step = "create_po" -> "po_created"
      [] step = "goods_receipt" -> "goods_received"
      [] step = "post_invoice" -> "invoice_posted"
      [] step = "payment" -> "payment_processed"

\* The answers of the remote system to the calls of one call_and_commit.
CallEnvs ==
    LET Rollbacks(p, c) ==
            IF \/ call_bapi("post", p).kind = "raise"
               \/ call_bapi("commit", c).kind = "raise"
            THEN ControlResponses ELSE {NotAsked}
        Commits(p) ==
            IF call_bapi("post", p).kind = "return"
            THEN ControlResponses ELSE {NotAsked}
    IN  UNION {UNION {
            {[post |-> p, commit |-> c, rollback |-> r] : r \in Rollbacks(p, c)} :
            c \in Commits(p)} :
            p \in ControlResponses}

\* What the anomaly detector can answer.
Detections == {"normal", "anomaly", "raises"}

\* A verification that lets every invoice through.
_verify_invoice_trusting(request, expected_amount, detection) == TRUE

\* A verification that fails every invoice over the tolerance, whatever the
\* detector says.
_verify_invoice_by_tolerance(request, expected_amount, detection) ==
    LET d == expected_amount - request.total_amount
        variance == IF d < 0 THEN -d ELSE d
    IN  ~(expected_amount > 0 /\ variance * 100 > tolerance_percent * expected_amount)

\* _verify_invoice_with_ai on the expected amount read from the order.
_verify_invoice_with_ai(request, expected_amount, detection) ==
    LET d == expected_amount - request.total_amount
        variance == IF d < 0 THEN -d ELSE d
        \* variance_percent > p, with variance_percent 0 for a zero total
        Over(p) == expected_amount > 0 /\ variance * 100 > p * expected_amount
    IN  IF Over(tolerance_percent)
        THEN IF detection = "raises" THEN ~Over(FallbackPercent)
             ELSE detection # "anomaly"
        ELSE TRUE

\* An auto-pay rule that stops at the ceiling itself.
_should_auto_pay_below(request) ==
    /\ request.total_amount < AutoPayCeiling
    /\ request.urgency # "emergency"

\* _should_auto_pay
_should_auto_pay(request) ==
    /\ ~(request.total_amount > AutoPayCeiling)
    /\ request.urgency # "emergency"

NewSummary ==
    [status |-> "in_progress", steps_completed |-> << >>, documents |-> {},
     errors |-> << >>]

P2PInit ==
    /\ p2p_pc = "ready"
    /\ p2p_status = "initiated"
    /\ p2p_documents = {}
    /\ p2p_transactions = [m \in {"MM-PO", "FI-AP"} |-> << >>]
    /\ p2p_request = [none |-> TRUE]
    /\ p2p_summary = [status |-> "none"]
    /\ p2p_hist = <<"initiated">>
    /\ p2p_runs = 1
    /\ p2p_calls = << >>
    /\ p2p_seen = [asked |-> FALSE]
    /\ p2p_failed = {}

\* What mm_po.read can answer to _verify_invoice_with_ai.
ExpectedAmounts == {0, 96, 108, 10000, 20000}
PoDetails == {[raises |-> TRUE, total |-> 0]}
             \cup {[raises |-> FALSE, total |-> t] : t \in ExpectedAmounts}

\* ProcureToPayWorkflow.__init__ for the next execution.
p2p_init ==
    /\ p2p_pc = "returned"
    /\ p2p_runs < MaxP2PRuns
    /\ p2p_runs' = p2p_runs + 1
    /\ p2p_pc' = "ready"
    /\ p2p_status' = "initiated"
    /\ p2p_documents' = {}
    /\ p2p_transactions' = [m \in {"MM-PO", "FI-AP"} |-> << >>]
    /\ p2p_hist' = <<"initiated">>
    /\ p2p_request' = [none |-> TRUE]
    /\ p2p_summary' = [status |-> "none"]
    /\ p2p_calls' = << >>
    /\ p2p_seen' = [asked |-> FALSE]
    /\ p2p_failed' = {}

\* The calls an operation of a module made on the connector, each under the
\* name of the operation.
Tagged(op, calls) == [i \in 1..Len(calls) |-> <<op, calls[i]>>]

\* self.status = ..., as other code gets to read it.
SetStatus(s) ==
    /\ p2p_status' = s
    /\ p2p_hist' = Append(p2p_hist, s)

\* An except branch that drops the documents gathered so far.
p2p_except_clearing(what) ==
    /\ p2p_summary' = [p2p_summary EXCEPT !.status = "failed",
                                          !.errors = Append(@, what),
                                          !.documents = {}]
    /\ p2p_status' = "failed"
    /\ p2p_hist' = Append(p2p_hist, "failed")
    /\ p2p_pc' = "returned"

\* The `except Exception` branch of execute, then `return summary`.
p2p_except(what) ==
    /\ p2p_summary' = [p2p_summary EXCEPT !.status = "failed",
                                          !.errors = Append(@, what)]
    /\ SetStatus("failed")
    /\ p2p_pc' = "returned"

\* A stage that ended: its document is kept (in self.documents by all stages
\* but the payment), its name recorded, the status assigned.
p2p_stage_done(step, doc, pc) ==
    /\ p2p_summary' = [p2p_summary EXCEPT
                           !.steps_completed = Append(@, StatusAfter(step)),
                           !.documents = @ \cup {doc}]
    /\ p2p_documents' = IF step = "payment" THEN p2p_documents
                        ELSE p2p_documents \cup {doc}
    /\ SetStatus(StatusAfter(step))
    /\ p2p_pc' = pc

\* execute() is called: lines 81-91.
p2p_execute(request) ==
    /\ p2p_pc = "ready"
    /\ p2p_request' = request
    /\ p2p_summary' = NewSummary
    /\ p2p_pc' = "classify"
    /\ UNCHANGED <<p2p_status, p2p_documents, p2p_transactions, p2p_hist,
                   p2p_runs, p2p_calls, p2p_seen, p2p_failed>>

\* Step 1: _classify_request, which keeps its own failures to itself.
p2p_classify_request ==
    /\ p2p_pc = "classify"
    /\ p2p_pc' = "create_po"
    /\ UNCHANGED <<p2p_status, p2p_documents, p2p_transactions, p2p_hist,
                   p2p_runs, p2p_request, p2p_summary, p2p_calls, p2p_seen,
                   p2p_failed>>

\* Step 2: _create_purchase_order.
p2p_create_purchase_order ==
    /\ p2p_pc = "create_po"
    /\ LET data == [fields_ok |-> p2p_request.materials_ok,
                    has_partner |-> p2p_request.vendor]
       IN  \E env \in CreateEnvs("MM-PO", data) :
               LET r == create("MM-PO", data, env)
               IN  /\ p2p_transactions' =
                       [p2p_transactions EXCEPT !["MM-PO"] = @ \o r.logged]
                   /\ p2p_calls' = p2p_calls \o Tagged("mm_po.create", r.calls)
                   /\ p2p_failed' = IF r.ret.kind = "raise"
                                    THEN p2p_failed \cup {"mm_po.create"} ELSE p2p_failed
                   /\ IF r.ret.kind = "raise"
                      THEN p2p_except(r.ret.what) /\ UNCHANGED p2p_documents
                      ELSE p2p_stage_done("create_po", "po_number", "goods_receipt")
    /\ UNCHANGED <<p2p_request, p2p_runs, p2p_seen>>

\* Step 3: _post_goods_receipt.
p2p_post_goods_receipt ==
    /\ p2p_pc = "goods_receipt"
    /\ \E env \in CallEnvs :
           LET r == call_and_commit(env)
           IN  /\ p2p_calls' = p2p_calls
                                   \o Tagged("mm_po.create_goods_receipt", r.calls)
               /\ p2p_failed' = IF r.ret.kind = "raise"
                                THEN p2p_failed \cup {"mm_po.create_goods_receipt"}
                                ELSE p2p_failed
               /\ IF r.ret.kind = "raise"
                  THEN p2p_except(r.ret.what) /\ UNCHANGED p2p_documents
                  ELSE p2p_stage_done("goods_receipt", "material_document", "verify")
    /\ UNCHANGED <<p2p_request, p2p_runs, p2p_transactions, p2p_seen>>

\* Whether _verify_invoice_with_ai gets to ask the anomaly detector: the
\* variance is over the tolerance.
AsksDetector(request, expected_amount) ==
    LET d == expected_amount - request.total_amount
        variance == IF d < 0 THEN -d ELSE d
    IN  expected_amount > 0 /\ variance * 100 > tolerance_percent * expected_amount

\* Step 4: _verify_invoice_with_ai; an invoice that fails it ends the run at
\* requires_review with self.status left as it is.
p2p_verify_invoice(po, detection) ==
    /\ p2p_pc = "verify"
    /\ IF po.raises
       THEN /\ detection = "normal"
            /\ p2p_except("connector_error")
            /\ p2p_calls' = Append(p2p_calls, <<"mm_po.read", "post">>)
            /\ p2p_failed' = p2p_failed \cup {"mm_po.read"}
            /\ UNCHANGED p2p_seen
       ELSE LET asks == AsksDetector(p2p_request, po.total)
            IN  /\ ~asks => detection = "normal"
                /\ p2p_calls' = p2p_calls \o <<<<"mm_po.read", "post">>>>
                       \o (IF asks THEN <<<<"anomaly_detector", "detect">>>> ELSE << >>)
                /\ p2p_seen' = [asked |-> asks, expected_amount |-> po.total,
                                detection |-> detection]
                /\ UNCHANGED p2p_failed
                /\ IF _verify_invoice_with_ai(p2p_request, po.total, detection)
                   THEN /\ p2p_pc' = "post_invoice"
                        /\ UNCHANGED <<p2p_summary, p2p_status, p2p_hist>>
                   ELSE /\ p2p_summary' = [p2p_summary EXCEPT
                               !.status = "requires_review",
                               !.errors = Append(@, "Invoice verification failed")]
                        /\ p2p_pc' = "returned"
                        /\ UNCHANGED <<p2p_status, p2p_hist>>
    /\ UNCHANGED <<p2p_request, p2p_runs, p2p_documents, p2p_transactions>>

\* Step 5: _post_invoice.
p2p_post_invoice ==
    /\ p2p_pc = "post_invoice"
    /\ LET data == [fields_ok |-> TRUE, has_partner |-> p2p_request.vendor]
       IN  \E env \in CreateEnvs("FI-AP", data) :
               LET r == create("FI-AP", data, env)
               IN  /\ p2p_transactions' =
                       [p2p_transactions EXCEPT !["FI-AP"] = @ \o r.logged]
                   /\ p2p_calls' = p2p_calls \o Tagged("fi_ap.create", r.calls)
                   /\ p2p_failed' = IF r.ret.kind = "raise"
                                    THEN p2p_failed \cup {"fi_ap.create"} ELSE p2p_failed
                   /\ IF r.ret.kind = "raise"
                      THEN p2p_except(r.ret.what) /\ UNCHANGED p2p_documents
                      ELSE p2p_stage_done("post_invoice", "invoice_document", "payment")
    /\ UNCHANGED <<p2p_request, p2p_runs, p2p_seen>>

\* Step 6: _process_payment where _should_auto_pay allows it.
p2p_process_payment ==
    /\ p2p_pc = "payment"
    /\ IF ~_should_auto_pay(p2p_request)
       THEN /\ p2p_pc' = "complete"
            /\ UNCHANGED <<p2p_summary, p2p_status, p2p_hist, p2p_documents,
                           p2p_calls, p2p_failed>>
       ELSE \E env \in CallEnvs :
                LET r == call_and_commit(env)
                IN  /\ p2p_calls' = p2p_calls
                                        \o Tagged("fi_ap.process_payment", r.calls)
                    /\ p2p_failed' = IF r.ret.kind = "raise"
                                     THEN p2p_failed \cup {"fi_ap.process_payment"}
                                     ELSE p2p_failed
                    /\ IF r.ret.kind = "raise"
                       THEN p2p_except(r.ret.what) /\ UNCHANGED p2p_documents
                       ELSE p2p_stage_done("payment", "payment_document", "complete")
    /\ UNCHANGED <<p2p_request, p2p_runs, p2p_transactions, p2p_seen>>

\* Lines 133-134 and the return.
p2p_complete ==
    /\ p2p_pc = "complete"
    /\ SetStatus("completed")
    /\ p2p_summary' = [p2p_summary EXCEPT !.status = "completed"]
    /\ p2p_pc' = "returned"
    /\ UNCHANGED <<p2p_request, p2p_runs, p2p_documents, p2p_transactions,
                   p2p_calls, p2p_seen, p2p_failed>>

P2PNext ==
    \/ p2p_init /\ UNCHANGED notP2P
    \/ \E request \in ProcureToPayRequest : p2p_execute(request) /\ UNCHANGED notP2P
    \/ p2p_classify_request /\ UNCHANGED notP2P
    \/ p2p_create_purchase_order /\ UNCHANGED notP2P
    \/ p2p_post_goods_receipt /\ UNCHANGED notP2P
    \/ \E po \in PoDetails, detection \in Detections :
           p2p_verify_invoice(po, detection) /\ UNCHANGED notP2P
    \/ p2p_post_invoice /\ UNCHANGED notP2P
    \/ p2p_process_payment /\ UNCHANGED notP2P
    \/ p2p_complete /\ UNCHANGED notP2P

(***************************************************************************)
(* RateLimitMiddleware.dispatch (api/middleware.py) on its default         *)
(* limiter, RateLimiter(60).  The clock runs in ticks of which             *)
(* TicksPerSecond make a second, so that requests can be told apart        *)
(* inside one second; the refill rate is in units per tick.                *)
(***************************************************************************)
MwRate == DefaultRpm \div TicksPerSecond

MwInit ==
    /\ mw_bucket = NoBucket
    /\ mw_now = 0
    /\ mw_ticks = 0
    /\ mw_calls = 0
    /\ mw_first = 0
    /\ mw_last = [op |-> "none"]

\* dispatch: is_allowed(client_id); a request that is not allowed is answered
\* 429 with get_retry_after(client_id), the others go on to the handler.
mw_dispatch ==
    /\ mw_calls < MaxDispatches
    /\ LET fresh == mw_bucket = NoBucket
           b0 == IF fresh THEN TokenBucket(DefaultRpm, MwRate, mw_now) ELSE mw_bucket
           r == consume(b0, mw_now)
       IN  /\ mw_bucket' = r.bucket
           /\ mw_first' = IF fresh THEN mw_now ELSE mw_first
           /\ mw_calls' = mw_calls + 1
           /\ mw_last' = [op |-> "dispatch", n |-> mw_calls + 1, at |-> mw_now,
                          status_code |-> IF r.ok THEN 200 ELSE 429,
                          retry_after |-> IF r.ok THEN <<0, 1>>
                                          ELSE get_wait_time(r.bucket)]
    /\ UNCHANGED <<mw_now, mw_ticks>>

\* time.time() moves on by one tick.
MwTick ==
    /\ mw_ticks < MaxMwTicks
    /\ mw_ticks' = mw_ticks + 1
    /\ mw_now' = mw_now + 1
    /\ UNCHANGED <<mw_bucket, mw_calls, mw_first, mw_last>>

MwNext ==
    \/ mw_dispatch /\ UNCHANGED notMw
    \/ MwTick /\ UNCHANGED notMw

(***************************************************************************)
(* The domain modules next to sap_circuit_breaker (core/circuit_breaker.py, *)
(* core/base_module.py).  Other callers run functions through the breaker  *)
(* and so open and close it; the domain modules are the classes of         *)
(* modules/, which derive from core/base_module.BaseSAPModule, whose       *)
(* call_bapi and read_table go to the connector themselves.                *)
(***************************************************************************)
SapInit ==
    /\ sap_circuit_breaker = CircuitBreaker
    /\ sap_now = 0
    /\ sap_ticks = 0

\* One caller runs sap_circuit_breaker.call(func) to its end.
sap_call(outcome) ==
    /\ sap_circuit_breaker' = call(sap_circuit_breaker, sap_now, outcome).breaker
    /\ UNCHANGED <<sap_now, sap_ticks, modVars>>

\* datetime.now() moves on: a short step or a whole cooldown.
SapTick(d) ==
    /\ sap_ticks < MaxSapTicks
    /\ sap_ticks' = sap_ticks + 1
    /\ sap_now' = sap_now + d
    /\ UNCHANGED <<sap_circuit_breaker, modVars>>

\* _vendor_exists / _customer_exists: read_table, and False when it raises.
mod_exists(m) ==
    /\ mod_last' \in {[op |-> "_exists", module |-> m,
                        ret |-> Return(l = "found"), calls |-> <<"read_table">>,
                        post_error |-> FALSE, post_answered |-> FALSE,
                        rollback_fails |-> FALSE,
                        before |-> Len(transactions[m])] : l \in Lookups}
    /\ UNCHANGED transactions

SapNext ==
    \/ \E o \in Outcomes : sap_call(o) /\ UNCHANGED notSap
    \/ \E d \in {StepSeconds, timeout} : SapTick(d) /\ UNCHANGED notSap
    \/ \E op \in ModOps : \E m \in Modules :
          HasOp(m, op) /\ mod_operation(op, m) /\ UNCHANGED notMod
    \/ \E m \in {"FI-AP", "SD-SO"} :
          mod_exists(m) /\ UNCHANGED notMod

(***************************************************************************)
(* BaseSAPModule.batch_process (core/base_module.py).  process_function is *)
(* given by what each of its calls ends with: outs[i] is the end of the    *)
(* call made for the i-th record.                                          *)
(***************************************************************************)
BatchItems == {"a", "b"}
FnOutcomes == {"ok", "raise"}

\* The `for idx, data in enumerate(data_list, 1)` loop from idx on: acc holds
\* the results dict and the records process_function has been called with.
RECURSIVE batch_loop(_, _, _, _)
batch_loop(data_list, outs, idx, acc) ==
    IF idx > Len(data_list)
    THEN acc
    ELSE LET data == data_list[idx]
             r == acc.results
             next ==
                 IF outs[idx] = "ok"
                 THEN [r EXCEPT !.successful = @ + 1,
                                !.details = Append(@, [index |-> idx,
                                                       status |-> "success",
                                                       result |-> Return(data)])]
                 ELSE [r EXCEPT !.failed = @ + 1,
                                !.details = Append(@, [index |-> idx,
                                                       status |-> "failed",
                                                       error |-> "process_error"])]
         IN  batch_loop(data_list, outs, idx + 1,
                        [results |-> next, applied |-> Append(acc.applied, data)])

NewBatch(data_list) ==
    [results |-> [total |-> Len(data_list), successful |-> 0, failed |-> 0,
                  details |-> << >>],
     applied |-> << >>]

\* A batch that gives up after the first record that raises.
batch_process_giving_up(data_list, outs) ==
    LET Raising == {i \in 1..Len(data_list) : outs[i] = "raise"}
        stop == IF Raising = {} THEN Len(data_list)
                ELSE CHOOSE i \in Raising : \A j \in Raising : i <= j
    IN  batch_loop(SubSeq(data_list, 1, stop), outs, 1, NewBatch(data_list))

\* batch_process(data_list, process_function)
batch_process(data_list, outs) ==
    batch_loop(data_list, outs, 1, NewBatch(data_list))

BpInit == bp_last = [op |-> "none"]

\* One batch_process call, run to its end.
bp_batch_process ==
    \E data_list \in SeqsUpTo(BatchItems, MaxBatch) :
        \E outs \in [1..Len(data_list) -> FnOutcomes] :
            LET r == batch_process(data_list, outs)
            IN  bp_last' = [op |-> "batch_process", data_list |-> data_list,
                            outs |-> outs, applied |-> r.applied,
                            results |-> r.results]

BpNext == bp_batch_process /\ UNCHANGED notBp

(***************************************************************************)
(* RateLimiter.is_allowed next to RateLimiter.cleanup_old_buckets          *)
(* (api/middleware.py), called from different threads without a lock.      *)
(* The steps are the reads and writes of the shared dict; consume on one   *)
(* bucket is taken as one step here.  ev_heap holds the bucket objects,    *)
(* ev_dict maps a client to an index of ev_heap, 0 when it has no entry,   *)
(* and ev_order lists the keys in the order the dict iterates them.        *)
(***************************************************************************)
NoEvLocals == [client |-> "none", bucket |-> 0]
CleanerIdle ==
    [pc |-> "idle", now |-> 0, size |-> 0, i |-> 0, to_remove |-> << >>,
     ret |-> "none"]

Without(seq, k) == SelectSeq(seq, LAMBDA x : x # k)

EvInit ==
    /\ ev_order = << >>
    /\ ev_dict = [c \in Clients |-> 0]
    /\ ev_heap = << >>
    /\ ev_now = 0
    /\ ev_idles = 0
    /\ ev_pc = [t \in Threads |-> "idle"]
    /\ ev_loc = [t \in Threads |-> NoEvLocals]
    /\ ev_ret = [t \in Threads |-> "none"]
    /\ ev_calls = [t \in Threads |-> 0]
    /\ ev_cl = CleanerIdle
    /\ ev_cleanups = 0
    /\ ev_lost = {}

\* A thread enters is_allowed(c).
ev_call(t, c) ==
    /\ ev_pc[t] = "idle"
    /\ ev_calls[t] < MaxEvCalls
    /\ ev_calls' = [ev_calls EXCEPT ![t] = @ + 1]
    /\ ev_loc' = [ev_loc EXCEPT ![t] = [NoEvLocals EXCEPT !.client = c]]
    /\ ev_ret' = [ev_ret EXCEPT ![t] = "none"]
    /\ ev_pc' = [ev_pc EXCEPT ![t] = "check_in"]
    /\ UNCHANGED <<ev_order, ev_dict, ev_heap, ev_now, ev_idles, ev_cl,
                   ev_cleanups, ev_lost>>

\* `if client_id not in self.buckets`
ev_check_in(t) ==
    /\ ev_pc[t] = "check_in"
    /\ ev_pc' = [ev_pc EXCEPT ![t] = IF ev_dict[ev_loc[t].client] = 0
                                     THEN "create" ELSE "lookup"]
    /\ UNCHANGED <<ev_order, ev_dict, ev_heap, ev_now, ev_idles, ev_loc, ev_ret,
                   ev_calls, ev_cl, ev_cleanups, ev_lost>>

\* `self.buckets[client_id] = TokenBucket(...)`: a new key goes to the end of
\* the dict, a key put there meanwhile keeps its place.
ev_create(t) ==
    LET c == ev_loc[t].client
    IN  /\ ev_pc[t] = "create"
        /\ ev_heap' = Append(ev_heap, TokenBucket(TestRpm, TestRpm, ev_now))
        /\ ev_dict' = [ev_dict EXCEPT ![c] = Len(ev_heap) + 1]
        /\ ev_order' = IF ev_dict[c] = 0 THEN Append(ev_order, c) ELSE ev_order
        /\ ev_pc' = [ev_pc EXCEPT ![t] = "lookup"]
        /\ UNCHANGED <<ev_now, ev_idles, ev_loc, ev_ret, ev_calls, ev_cl,
                       ev_cleanups, ev_lost>>

\* `bucket = self.buckets[client_id]`: KeyError when the key is gone.
ev_lookup(t) ==
    LET c == ev_loc[t].client
    IN  /\ ev_pc[t] = "lookup"
        /\ IF ev_dict[c] = 0
           THEN /\ ev_ret' = [ev_ret EXCEPT ![t] = "KeyError"]
                /\ ev_pc' = [ev_pc EXCEPT ![t] = "idle"]
                /\ UNCHANGED ev_loc
           ELSE /\ ev_loc' = [ev_loc EXCEPT ![t].bucket = ev_dict[c]]
                /\ ev_pc' = [ev_pc EXCEPT ![t] = "consume"]
                /\ UNCHANGED ev_ret
        /\ UNCHANGED <<ev_order, ev_dict, ev_heap, ev_now, ev_idles, ev_calls,
                       ev_cl, ev_cleanups, ev_lost>>

\* `return bucket.consume(1)` on the bucket object the thread holds, whether
\* the dict still holds it or not.
ev_consume(t) ==
    LET i == ev_loc[t].bucket
        r == consume(ev_heap[i], ev_now)
    IN  /\ ev_pc[t] = "consume"
        /\ ev_heap' = [ev_heap EXCEPT ![i] = r.bucket]
        /\ ev_ret' = [ev_ret EXCEPT ![t] = IF r.ok THEN "True" ELSE "False"]
        /\ ev_lost' = IF r.ok /\ ev_dict[ev_loc[t].client] # i
                      THEN ev_lost \cup {i} ELSE ev_lost
        /\ ev_pc' = [ev_pc EXCEPT ![t] = "idle"]
        /\ UNCHANGED <<ev_order, ev_dict, ev_now, ev_idles, ev_loc, ev_calls,
                       ev_cl, ev_cleanups>>

\* cleanup_old_buckets: `now = time.time()` and the start of the iteration
\* over self.buckets.items().
ev_cleanup_begin ==
    /\ ev_cl.pc = "idle"
    /\ ev_cleanups < MaxEvCleanups
    /\ ev_cleanups' = ev_cleanups + 1
    /\ ev_cl' = [pc |-> "scan", now |-> ev_now, size |-> Len(ev_order), i |-> 1,
                 to_remove |-> << >>, ret |-> "none"]
    /\ UNCHANGED <<ev_order, ev_dict, ev_heap, ev_now, ev_idles, ev_pc, ev_loc,
                   ev_ret, ev_calls, ev_lost>>

\* One step of `for client_id, bucket in self.buckets.items()`: the iterator
\* raises RuntimeError when the dict has changed size since it was made;
\* otherwise it ends, or hands out the next entry, which is listed for
\* removal when its bucket was last refilled more than an hour ago.
ev_scan ==
    /\ ev_cl.pc = "scan"
    /\ ev_cl' =
          IF Len(ev_order) # ev_cl.size
          THEN [ev_cl EXCEPT !.pc = "idle", !.ret = "RuntimeError"]
          ELSE IF ev_cl.i > Len(ev_order)
          THEN [ev_cl EXCEPT !.pc = "delete"]
          ELSE LET k == ev_order[ev_cl.i]
                   bucket == ev_heap[ev_dict[k]]
               IN  [ev_cl EXCEPT
                      !.i = @ + 1,
                      !.to_remove =
                          IF (ev_cl.now - bucket.last_refill) > InactiveSeconds
                          THEN Append(@, k) ELSE @]
    /\ UNCHANGED <<ev_order, ev_dict, ev_heap, ev_now, ev_idles, ev_pc, ev_loc,
                   ev_ret, ev_calls, ev_cleanups, ev_lost>>

\* One step of `for client_id in to_remove: del self.buckets[client_id]`.  A
\* bucket is deleted while in use when a caller holds it, or has consumed
\* from it since the iteration looked at it.
ev_delete ==
    /\ ev_cl.pc = "delete"
    /\ IF ev_cl.to_remove = << >>
       THEN /\ ev_cl' = [ev_cl EXCEPT !.pc = "idle", !.ret = "done"]
            /\ UNCHANGED <<ev_order, ev_dict, ev_lost>>
       ELSE LET k == Head(ev_cl.to_remove)
                i == ev_dict[k]
            IN  IF i = 0
                THEN /\ ev_cl' = [ev_cl EXCEPT !.pc = "idle", !.ret = "KeyError"]
                     /\ UNCHANGED <<ev_order, ev_dict, ev_lost>>
                ELSE /\ ev_cl' = [ev_cl EXCEPT !.to_remove = Tail(@)]
                     /\ ev_dict' = [ev_dict EXCEPT ![k] = 0]
                     /\ ev_order' = Without(ev_order, k)
                     /\ ev_lost' =
                           IF \/ \E t \in Threads : /\ ev_pc[t] = "consume"
                                                    /\ ev_loc[t].bucket = i
                              \/ (ev_cl.now - ev_heap[i].last_refill) <= InactiveSeconds
                           THEN ev_lost \cup {i} ELSE ev_lost
    /\ UNCHANGED <<ev_heap, ev_now, ev_idles, ev_pc, ev_loc, ev_ret, ev_calls,
                   ev_cleanups>>

\* time.time() moves on past the inactivity window.
EvIdle ==
    /\ ev_idles < MaxEvIdles
    /\ ev_idles' = ev_idles + 1
    /\ ev_now' = ev_now + InactiveSeconds + 1
    /\ UNCHANGED <<ev_order, ev_dict, ev_heap, ev_pc, ev_loc, ev_ret, ev_calls,
                   ev_cl, ev_cleanups, ev_lost>>

EvNext ==
    \/ \E t \in Threads, c \in Clients : ev_call(t, c) /\ UNCHANGED notEv
    \/ \E t \in Threads : ev_check_in(t) /\ UNCHANGED notEv
    \/ \E t \in Threads : ev_create(t) /\ UNCHANGED notEv
    \/ \E t \in Threads : ev_lookup(t) /\ UNCHANGED notEv
    \/ \E t \in Threads : ev_consume(t) /\ UNCHANGED notEv
    \/ ev_cleanup_begin /\ UNCHANGED notEv
    \/ ev_scan /\ UNCHANGED notEv
    \/ ev_delete /\ UNCHANGED notEv
    \/ EvIdle /\ UNCHANGED notEv

(***************************************************************************)
(* TenantManager.get_connector (core/tenant_manager.py).  The connector    *)
(* class is not part of the sources at hand: it keeps the configuration it *)
(* is made with, and its connect() returns or raises.                      *)
(***************************************************************************)
\* TenantManager._load_tenant_configs
tenants ==
    [company_a |-> [sap_host |-> "sap-a.company.com", sap_client |-> "100",
                    company_code |-> "1000", currency |-> "USD", country |-> "US"],
     company_b |-> [sap_host |-> "sap-b.company.com", sap_client |-> "200",
                    company_code |-> "2000", currency |-> "EUR", country |-> "DE"]]

\* The tenant ids a caller may pass: the registered ones, another one, none.
TenantIds == {"company_a", "company_b", "company_c", ""}

\* str.upper on those ids.
upper ==
    [company_a |-> "COMPANY_A", company_b |-> "COMPANY_B",
     company_c |-> "COMPANY_C"]

ConnectOutcomes == {"ok", "raises"}

\* SAPConfig(...), SAPRFCConnector(sap_config), connector.connect() for the
\* registry entry `config`.
build_connector(config, tenant_id, connect) ==
    LET sap_config == [host |-> config.sap_host, client |-> config.sap_client,
                       user |-> <<upper[tenant_id], "_USER">>,
                       password |-> <<upper[tenant_id], "_PASSWORD">>]
    IN  [ret |-> IF connect = "raises"
                 THEN Raise("connect", "connection_error")
                 ELSE Return(sap_config),
         created |-> <<[sap_config |-> sap_config,
                        connected |-> (connect = "ok")]>>]

\* A lookup that falls back to the first tenant.
get_connector_fallback(tenant_id, connect) ==
    build_connector(tenants["company_a"],
                    IF tenant_id = "" THEN "company_a" ELSE tenant_id, connect)

\* TenantManager.get_connector
get_connector(tenant_id, connect) ==
    IF tenant_id \notin DOMAIN tenants
    THEN [ret |-> Raise("get_connector", "unknown_tenant"), created |-> << >>]
    ELSE build_connector(tenants[tenant_id], tenant_id, connect)

TmInit ==
    /\ tm_connectors = << >>
    /\ tm_last = [op |-> "none"]

\* One get_connector call, run to its end.
tm_get_connector(tenant_id, connect) ==
    LET r == get_connector(tenant_id, connect)
    IN  /\ Len(tm_connectors) + Len(r.created) <= MaxConnectors
        /\ (r.created = << >>) => connect = "ok"
        /\ tm_connectors' = tm_connectors \o r.created
        /\ tm_last' = [op |-> "get_connector", tenant_id |-> tenant_id,
                       ret |-> r.ret, before |-> Len(tm_connectors)]

TmNext ==
    \E tenant_id \in TenantIds, connect \in ConnectOutcomes :
        tm_get_connector(tenant_id, connect) /\ UNCHANGED notTm

(***************************************************************************)
(* RateLimiter (api/middleware.py): the calls of one client, one caller at *)
(* a time, with the clock readings of the admitted calls kept so that the  *)
(* admissions inside a window of time can be counted.                      *)
(***************************************************************************)
WinInit ==
    /\ win_bucket = NoBucket
    /\ win_now = 0
    /\ win_ticks = 0
    /\ win_idles = 0
    /\ win_admitted = << >>

\* RateLimiter.is_allowed for the client: the bucket is created on first use.
win_is_allowed ==
    LET b0 == IF win_bucket = NoBucket
              THEN TokenBucket(capacity, refill_rate, win_now)
              ELSE win_bucket
        r  == consume(b0, win_now)
    IN  /\ win_bucket' = r.bucket
        /\ win_admitted' = IF r.ok THEN Append(win_admitted, win_now)
                           ELSE win_admitted
        /\ UNCHANGED <<win_now, win_ticks, win_idles>>

\* RateLimiter.cleanup_old_buckets.
win_cleanup_old_buckets ==
    /\ win_bucket' = IF /\ win_bucket # NoBucket
                        /\ (win_now - win_bucket.last_refill) > InactiveSeconds
                     THEN NoBucket ELSE win_bucket
    /\ UNCHANGED <<win_now, win_ticks, win_idles, win_admitted>>

\* time.time() moves on by a second or by a short step.
WinTick(d) ==
    /\ win_ticks < MaxWinTicks
    /\ win_ticks' = win_ticks + 1
    /\ win_now' = win_now + d
    /\ UNCHANGED <<win_bucket, win_idles, win_admitted>>

\* time.time() moves on past the inactivity window.
WinIdle ==
    /\ win_idles < MaxWinIdles
    /\ win_idles' = win_idles + 1
    /\ win_now' = win_now + InactiveSeconds + 1
    /\ UNCHANGED <<win_bucket, win_ticks, win_admitted>>

WinNext ==
    \/ win_is_allowed /\ UNCHANGED notWin
    \/ win_cleanup_old_buckets /\ UNCHANGED notWin
    \/ \E d \in {1, StepSeconds} : WinTick(d) /\ UNCHANGED notWin
    \/ WinIdle /\ UNCHANGED notWin

Init ==
    /\ RLInit /\ RCInit /\ CBInit /\ CCInit /\ TCInit /\ ModInit
    /\ InvInit /\ P2PInit /\ MwInit /\ SapInit /\ BpInit
    /\ EvInit /\ TmInit /\ WinInit

SpecRL == Init /\ [][RLNext]_vars
SpecRLConc == Init /\ [][RCNext]_vars
SpecCB == Init /\ [][CBNext]_vars
SpecCBConc == Init /\ [][CCNext]_vars
SpecTenant == Init /\ [][TCNext]_vars
SpecMod == Init /\ [][ModNext]_vars
SpecInv == Init /\ [][InvNext]_vars
SpecP2P == Init /\ [][P2PNext]_vars
SpecMw == Init /\ [][MwNext]_vars
SpecSap == Init /\ [][SapNext]_vars
SpecBp == Init /\ [][BpNext]_vars
SpecEv == Init /\ [][EvNext]_vars
SpecTm == Init /\ [][TmNext]_vars
SpecWin == Init /\ [][WinNext]_vars

\* C1: after any sequence of allow() calls at non-decreasing clock times, every
\* client's bucket holds at least 0 and at most capacity tokens.
C1_TokensWithinBounds ==
    \A c \in Clients :
        buckets[c] # NoBucket =>
            /\ 0 <= buckets[c].tokens
            /\ buckets[c].tokens <= buckets[c].capacity * SecondsPerMinute

\* C1 witness: a call was denied on a bucket run down below one token, and
\* another bucket has been refilled up to its cap after having been drawn on.
C1_Witness ==
    /\ rl_last.op = "is_allowed"
    /\ rl_last.ret = FALSE
    /\ buckets[rl_last.client].tokens < SecondsPerMinute
    /\ now > 0

\* C8: whatever the interleaving of concurrent is_allowed(c) calls, the calls
\* admitted for c never number more than the whole tokens c has had available:
\* a full bucket plus what the clock has refilled since.
C8_NoDoubleAdmission ==
    \A c \in Clients :
        rc_admitted[c] * SecondsPerMinute
            <= TestRpm * SecondsPerMinute + TestRpm * rc_now

\* The number of failures at the end of a history of outcomes.
RECURSIVE TrailingFailures(_)
TrailingFailures(h) ==
    IF h = << >> \/ h[Len(h)] = "ok" THEN 0
    ELSE 1 + TrailingFailures(SubSeq(h, 1, Len(h) - 1))

\* C2: from a state where the breaker is open and less than the cooldown has
\* passed since the last failure, no step invokes the wrapped operation, and a
\* call leaves the breaker as it was and ends with the circuit-open error.
C2_OpenFailsFast ==
    [][(/\ breaker.state = "open"
        /\ breaker.last_failure_time # NoFailureYet
        /\ cb_now - breaker.last_failure_time < timeout
        /\ cb_now' = cb_now)
       => (/\ cb_hist' = cb_hist
           /\ breaker' = breaker
           /\ cb_last'.op = "call" => (/\ ~cb_last'.invoked
                                       /\ cb_last'.raised = "circuit_open"))]_vars

\* C2 witness: a call has just been rejected by the open breaker inside the
\* cooldown.
C2_Witness ==
    /\ cb_last.op = "call"
    /\ cb_last.raised = "circuit_open"
    /\ breaker.state = "open"
    /\ cb_last.at - breaker.last_failure_time < timeout
    /\ cb_last.at > breaker.last_failure_time

\* C3: with one caller at a time the breaker is closed exactly while the
\* invoked operations have ended in fewer than failure_threshold consecutive
\* failures, so it opens when the failure_threshold-th consecutive failure
\* completes and neither earlier nor after an intervening success.
C3_OpensAtThreshold ==
    (breaker.state = "closed") <=> (TrailingFailures(cb_hist) < failure_threshold)

\* C3 witness: the breaker has opened on its third consecutive failure after an
\* earlier failure that a success had separated from them.
C3_Witness ==
    /\ breaker.state = "open"
    /\ TrailingFailures(cb_hist) = failure_threshold
    /\ Len(cb_hist) = failure_threshold + 2
    /\ cb_hist[1] = "fail"
    /\ cb_hist[2] = "ok"

\* C4: at no time are two wrapped operations executing as half-open trial
\* calls: of the operations in flight, at most one was admitted through the
\* half-open state.
C4_SingleTrial ==
    Cardinality({t \in Threads : cc_pc[t] = "invoke" /\ cc_loc[t].trial}) <= 1

\* C7: a request that set its own tenant reads back only what it set itself,
\* whichever worker thread serves it and whatever runs in between.
C7_TenantIsolation ==
    \A r \in SettingRequests :
        tc_seen[r].read =>
            /\ tc_seen[r].tenant_id = TenantOf[r]
            /\ tc_seen[r].company_code = TenantOf[r]

\* The records create() appended on its last run.
LastLogged ==
    SubSeq(transactions[mod_last.module], mod_last.before + 1,
           Len(transactions[mod_last.module]))

\* C5: a create() whose posting call answered with an error-severity message
\* returns no document number and leaves a record with status failed in the
\* module's transaction list.
C5_ErrorLeavesFailedRecord ==
    (mod_last.op = "create" /\ mod_last.post_error) =>
        /\ mod_last.ret.kind = "raise"
        /\ \E i \in 1..Len(LastLogged) : LastLogged[i].status = "failed"

\* C6: when the remote operation of a create() failed and the rollback failed
\* too, the caller gets the error of the remote operation, not the rollback's.
C6_RollbackDoesNotMask ==
    (/\ mod_last.op = "create"
     /\ mod_last.calls # << >>
     /\ mod_last.calls[Len(mod_last.calls)] = "rollback"
     /\ mod_last.rollback_fails) =>
        /\ mod_last.ret.kind = "raise"
        /\ mod_last.ret.at # "rollback"

\* C9: a run whose validation found a required field (vendor,
\* invoice_number, date, amount) missing ends with status
\* requires_manual_review, and has called neither get_or_create_vendor nor
\* fi_ap.create.
C9_MissingFieldShortCircuits ==
    (/\ inv_pc = "done"
     /\ inv_result.validation = "invalid"
     /\ MissingRequired(inv_data) # << >>) =>
        /\ inv_result.status = "requires_manual_review"
        /\ \A i \in 1..Len(inv_calls) :
               inv_calls[i] \notin {"get_or_create_vendor", "fi_ap.create"}

\* The place of a status on the way from initiated to completed.
Rank(s) ==
    CASE s = "initiated" -> 0
      [] s = "po_created" -> 1
      [] s = "goods_received" -> 2
      [] s = "invoice_posted" -> 3
      [] s = "payment_processed" -> 4
      [] s = "completed" -> 5
      [] s = "failed" -> 6

\* po_created, goods_received and invoice_posted occur in h in that order.
PassedInOrder(h) ==
    \E i, j, k \in 1..Len(h) :
        /\ i < j /\ j < k
        /\ h[i] = "po_created"
        /\ h[j] = "goods_received"
        /\ h[k] = "invoice_posted"

\* C10: every step of execute leaves the status where it is, moves it to a
\* later status of initiated, po_created, goods_received, invoice_posted,
\* payment_processed, completed, or moves it to failed; nothing follows
\* failed, and completed is assigned only after po_created, goods_received
\* and invoice_posted have been, in that order.
C10_StatusMovesForward ==
    [][(p2p_runs' = p2p_runs) =>
          /\ \/ p2p_status' = p2p_status
             \/ p2p_status # "failed" /\ Rank(p2p_status') > Rank(p2p_status)
          /\ (p2p_status' = "completed") => PassedInOrder(p2p_hist')]_vars

\* C10 witness: an execution that went through every status and ended
\* completed.
C10_Witness ==
    /\ p2p_status = "completed"
    /\ p2p_hist = <<"initiated", "po_created", "goods_received",
                    "invoice_posted", "payment_processed", "completed">>
    /\ p2p_summary.status = "completed"

\* The operations of the modules that execute has called so far.
P2POps == {p2p_calls[i][1] : i \in 1..Len(p2p_calls)}

\* The verification was given an anomaly by the detector, or a variance over
\* 10 percent with the detector failing.
VerificationMustFail ==
    /\ p2p_seen.asked
    /\ \/ p2p_seen.detection = "anomaly"
       \/ /\ p2p_seen.detection = "raises"
          /\ LET d == p2p_seen.expected_amount - p2p_request.total_amount
                 variance == IF d < 0 THEN -d ELSE d
             IN  variance * 100 > FallbackPercent * p2p_seen.expected_amount

\* C11: once the verification has been given an anomaly, or a variance over
\* 10 percent while the detector fails, the run is at requires_review from
\* then on, neither fi_ap.create nor fi_ap.process_payment is called, and the
\* documents hold no invoice_document and no payment_document.
C11_FailedVerificationHalts ==
    VerificationMustFail =>
        /\ p2p_pc = "returned"
        /\ p2p_summary.status = "requires_review"
        /\ P2POps \cap {"fi_ap.create", "fi_ap.process_payment"} = {}
        /\ p2p_summary.documents \cap {"invoice_document", "payment_document"} = {}
        /\ p2p_documents \cap {"invoice_document", "payment_document"} = {}

\* C11 witness: a run halted at requires_review on a variance over 10 percent
\* with the detector failing, the order and the goods receipt in its
\* documents.
C11_Witness ==
    /\ VerificationMustFail
    /\ p2p_seen.detection = "raises"
    /\ p2p_summary.status = "requires_review"
    /\ p2p_summary.documents = {"po_number", "material_document"}

\* C12: once the invoice is posted and the payment step is behind, the
\* payment call has been made exactly if total_amount <= 10000 and the
\* urgency is not emergency; a completed run has a payment_document exactly
\* in that case, so 10000 with normal urgency pays and 10001 completes
\* without a payment_document.
C12_AutoPayBoundary ==
    LET pays == /\ p2p_request.total_amount <= 10000
                /\ p2p_request.urgency # "emergency"
    IN  (/\ p2p_pc \in {"complete", "returned"}
         /\ "invoice_document" \in p2p_summary.documents) =>
            /\ ("fi_ap.process_payment" \in P2POps) <=> pays
            /\ (p2p_status = "completed") =>
                   (("payment_document" \in p2p_summary.documents) <=> pays)
            /\ (~pays /\ p2p_pc = "returned") => p2p_status = "completed"

\* C12 witness: a completed run for 10000 at normal urgency, paid.
C12_Witness ==
    /\ p2p_status = "completed"
    /\ p2p_request.total_amount = 10000
    /\ p2p_request.urgency = "normal"
    /\ "payment_document" \in p2p_summary.documents
    /\ "fi_ap.process_payment" \in P2POps

\* C13: where the order was read and has a positive total, is_match is true
\* exactly if |po_total - invoice_amount| * 100 <= 5 * po_total: with a total
\* of 1000, 1050 matches and 1051 does not.
C13_PoMatchTolerance ==
    (/\ inv_pc # "idle"
     /\ inv_result.po_match.asked
     /\ inv_result.po_match.compared
     /\ inv_result.po_match.po_amount > 0) =>
        LET d == inv_result.po_match.po_amount - inv_result.po_match.invoice_amount
            diff == IF d < 0 THEN -d ELSE d
        IN  /\ inv_result.po_match.is_match
                   <=> (diff * 100 <= 5 * inv_result.po_match.po_amount)
            /\ (inv_result.po_match.po_amount = 1000
                   /\ inv_result.po_match.invoice_amount = 1050)
                   => inv_result.po_match.is_match
            /\ (inv_result.po_match.po_amount = 1000
                   /\ inv_result.po_match.invoice_amount = 1051)
                   => ~inv_result.po_match.is_match

\* C13 witness: an invoice of 1050 matched against an order of 1000.
C13_Witness ==
    /\ inv_pc # "idle"
    /\ inv_result.po_match.asked
    /\ inv_result.po_match.compared
    /\ inv_result.po_match.po_amount = 1000
    /\ inv_result.po_match.invoice_amount = 1050
    /\ inv_result.po_match.is_match

\* C14: a run of process_invoice_file during which a collaborator raised
\* (extraction, duplicate check, review queue, vendor lookup, a call on a
\* domain module, approval notification) returns its result with status
\* failed and a message in errors.
C14_FailuresBecomeFailed ==
    (inv_pc = "done" /\ inv_failed # {}) =>
        /\ inv_result.status = "failed"
        /\ inv_result.errors # << >>

\* The documents of the stages whose status was assigned.
DocumentsOf(h) ==
    {doc \in {"po_number", "material_document", "invoice_document",
              "payment_document"} :
        \E i \in 1..Len(h) :
            \/ h[i] = "po_created" /\ doc = "po_number"
            \/ h[i] = "goods_received" /\ doc = "material_document"
            \/ h[i] = "invoice_posted" /\ doc = "invoice_document"
            \/ h[i] = "payment_processed" /\ doc = "payment_document"}

\* C15: once a step of execute has raised, the run has returned with the
\* status failed and the error recorded; the only rollback on the connector
\* belongs to the operation that raised, no operation other than the steps'
\* own has been called, and every document of an earlier stage is in the
\* returned documents.
C15_FailureKeepsDocuments ==
    (p2p_failed # {}) =>
        /\ p2p_pc = "returned"
        /\ p2p_status = "failed"
        /\ p2p_summary.status = "failed"
        /\ p2p_summary.errors # << >>
        /\ DocumentsOf(p2p_hist) \subseteq p2p_summary.documents
        /\ P2POps \subseteq {"mm_po.create", "mm_po.create_goods_receipt",
                              "mm_po.read", "anomaly_detector", "fi_ap.create",
                              "fi_ap.process_payment"}
        /\ \A i \in 1..Len(p2p_calls) :
               p2p_calls[i][2] = "rollback" => p2p_calls[i][1] \in p2p_failed

\* C15 witness: the posting of the invoice raised after the order and the
\* goods receipt were created, and both are in the returned documents.
C15_Witness ==
    /\ p2p_failed = {"fi_ap.create"}
    /\ p2p_status = "failed"
    /\ p2p_summary.documents = {"po_number", "material_document"}
    /\ p2p_hist = <<"initiated", "po_created", "goods_received", "failed">>

\* C16: with 60 requests per minute, each of the first 60 requests made
\* less than a second after the bucket was made is let through, and the 61st
\* inside that second is refused with a retry-after above zero.
C16_SixtyThenRefused ==
    (/\ mw_last.op = "dispatch"
     /\ mw_last.at - mw_first < TicksPerSecond) =>
        /\ (mw_last.n <= 60) => mw_last.status_code = 200
        /\ (mw_last.n = 61) =>
               /\ mw_last.status_code = 429
               /\ mw_last.retry_after[1] > 0
               /\ mw_last.retry_after[2] > 0

\* C16 witness: the 61st request, made in the second half of the second in
\* which the bucket was made, has been refused with a retry-after above zero.
C16_Witness ==
    /\ mw_last.op = "dispatch"
    /\ mw_last.n = 61
    /\ mw_last.at - mw_first = TicksPerSecond - 1
    /\ mw_last.status_code = 429
    /\ mw_last.retry_after[1] > 0

CommitBearing == {"create"} \cup ModOps
LastCalls == {mod_last.calls[i] : i \in 1..Len(mod_last.calls)}
ReportsFailure ==
    mod_last.ret.kind = "raise" \/ mod_last.ret = Return(FALSE)

\* C17: a create, update, delete, create_goods_receipt or process_payment
\* whose remote call came back with a result rolls back, does not commit and
\* reports failure when the result carries an error-severity message (one
\* entry or a list of entries), and commits when it carries none.
C17_CommitDiscipline ==
    (/\ mod_last.op \in CommitBearing
     /\ mod_last.post_answered) =>
        /\ mod_last.post_error =>
               /\ "rollback" \in LastCalls
               /\ "commit" \notin LastCalls
               /\ ReportsFailure
        /\ ~mod_last.post_error => "commit" \in LastCalls

\* C18: while the breaker is open and its cooldown has not elapsed, no
\* operation of a domain module reaches the connector: no posting call, no
\* commit, no rollback, no table read.
C18_OpenBreakerShieldsConnector ==
    [][(/\ sap_circuit_breaker.state = "open"
        /\ ~_should_attempt_reset(sap_circuit_breaker, sap_now)
        /\ mod_last' # mod_last) => mod_last'.calls = << >>]_vars

\* C19: batch_process calls process_function once for every record, in the
\* order of the list, whatever the earlier calls ended with; total is the
\* length of the list and equals successful + failed; details holds one
\* entry per record, in order, marked success or failed as its call ended.
C19_BatchCoversEveryItem ==
    bp_last.op = "batch_process" =>
        LET n == Len(bp_last.data_list)
            res == bp_last.results
        IN  /\ bp_last.applied = bp_last.data_list
            /\ res.total = n
            /\ res.total = res.successful + res.failed
            /\ Len(res.details) = n
            /\ \A i \in 1..n :
                   /\ res.details[i].index = i
                   /\ res.details[i].status =
                          IF bp_last.outs[i] = "ok" THEN "success" ELSE "failed"
            /\ res.successful = Cardinality({i \in 1..n : bp_last.outs[i] = "ok"})

\* C19 witness: a batch of three records or more whose first call raised and
\* whose last call succeeded has been processed to the end.
C19_Witness ==
    /\ bp_last.op = "batch_process"
    /\ Len(bp_last.data_list) >= 3
    /\ bp_last.outs[1] = "raise"
    /\ bp_last.results.details[Len(bp_last.data_list)].status = "success"
    /\ bp_last.results.failed >= 1
    /\ bp_last.results.successful >= 1

\* C20: a call that the open breaker lets through as the half-open trial
\* leaves the breaker closed when it succeeds, and open with the cooldown
\* clock set to the time of the failure when it fails; the next call made
\* less than the cooldown after a failed trial is rejected without invoking
\* the operation.
C20_TrialDecides ==
    [][/\ (/\ breaker.state = "open"
            /\ cb_now' = cb_now
            /\ cb_hist' # cb_hist) =>
               /\ cb_hist'[Len(cb_hist')] = "ok" => breaker'.state = "closed"
               /\ cb_hist'[Len(cb_hist')] = "fail" =>
                      /\ breaker'.state = "open"
                      /\ breaker'.last_failure_time = cb_now
       /\ (/\ cb_last.op = "call"
            /\ cb_last.was = "open"
            /\ cb_last.raised = "func_error"
            /\ cb_now - cb_last.at < timeout
            /\ cb_now' = cb_now) =>
               /\ cb_hist' = cb_hist
               /\ breaker' = breaker
               /\ cb_last'.raised = "circuit_open"]_vars

\* C20 witness: the trial made after the cooldown failed, and a call made
\* later, less than the cooldown after that failure, has been rejected.
C20_Witness ==
    /\ cb_last.op = "call"
    /\ cb_last.raised = "circuit_open"
    /\ breaker.state = "open"
    /\ TrailingFailures(cb_hist) = failure_threshold + 1
    /\ breaker.last_failure_time >= timeout
    /\ cb_last.at > breaker.last_failure_time
    /\ cb_last.at - breaker.last_failure_time < timeout

\* C21: every call whose wrapped operation succeeded, whether it was let
\* through by the closed breaker or as the trial of the open one, leaves the
\* breaker closed with a failure count of 0.
C21_SuccessResets ==
    [][(/\ cb_now' = cb_now
        /\ cb_hist' # cb_hist
        /\ cb_hist'[Len(cb_hist')] = "ok") =>
           /\ breaker'.failures = 0
           /\ breaker'.state = "closed"]_vars

\* C21 witness: the trial let through by the open breaker has succeeded and
\* the breaker is closed with no failure counted.
C21_Witness ==
    /\ cb_last.op = "call"
    /\ cb_last.was = "open"
    /\ cb_last.invoked
    /\ cb_last.raised = "none"
    /\ cb_hist = <<"fail", "fail", "fail", "ok">>
    /\ breaker.failures = 0
    /\ breaker.state = "closed"

\* Whether consume(1) on bucket b succeeds w[1] / w[2] seconds after clock
\* reading t: _refill and the test of consume, with the waiting time a fraction.
AdmittedAfter(b, t, w) ==
    Min(b.capacity * SecondsPerMinute * w[2],
        b.tokens * w[2] + ((t - b.last_refill) * w[2] + w[1]) * b.refill_rate)
        >= SecondsPerMinute * w[2]

\* C22: at the moment get_retry_after(client) is asked, its answer is 0
\* exactly when an is_allowed made at that moment would be let through, and
\* otherwise an is_allowed made that long afterwards is let through.
C22_WaitTimeExact ==
    (rl_last.op = "get_retry_after" /\ rl_last.at = now) =>
        LET c == rl_last.client
            b == IF buckets[c] = NoBucket
                 THEN TokenBucket(capacity, refill_rate, now)
                 ELSE buckets[c]
            w == rl_last.ret
        IN  /\ (w[1] = 0) <=> consume(b, now).ok
            /\ (w[1] > 0) => AdmittedAfter(b, now, w)

\* C23: however cleanup_old_buckets and concurrent is_allowed calls
\* interleave, every is_allowed ends with True or False and not with an
\* error, cleanup ends without an error, and no bucket is deleted while a
\* caller holds it or after a caller consumed from it.
C23_EvictionNeverRaces ==
    /\ \A t \in Threads : ev_ret[t] \in {"none", "True", "False"}
    /\ ev_cl.ret \in {"none", "done"}
    /\ ev_lost = {}

\* The stage of process_invoice_file a call belongs to: extract, validate,
\* vendor_resolve, po_match, three_way_match, approval_check, post.
StageOf(c) ==
    CASE c = "extract" -> 1
      [] c \in {"_is_duplicate_invoice", "_send_to_review_queue"} -> 2
      [] c = "get_or_create_vendor" -> 3
      [] c = "mm_po.read" -> 4
      [] c = "read_table" -> 5
      [] c = "_send_approval_notification" -> 6
      [] c = "fi_ap.create" -> 7

InvCalled(c) == \E i \in 1..Len(inv_calls) : inv_calls[i] = c

\* C24: the calls of one run come in the order of the stages; a run whose
\* status has left `processing` for anything but `completed` makes no call of
\* a later stage than the one that set it, apart from handing the invoice to
\* the review queue or the approver; and fi_ap.create is called only after
\* validation passed, the order match and the 3-way match, where a PO number
\* made them apply, both matched, and no approval was required.
C24_StagesInOrder ==
    /\ \A i, j \in 1..Len(inv_calls) :
           i < j => StageOf(inv_calls[i]) <= StageOf(inv_calls[j])
    /\ inv_result.status = "requires_manual_review" =>
           /\ inv_pc \in {"review_queue", "done"}
           /\ \A i \in 1..Len(inv_calls) : StageOf(inv_calls[i]) <= 2
    /\ inv_result.status = "po_mismatch" =>
           /\ inv_pc \in {"mismatch_approval", "done"}
           /\ ~InvCalled("read_table") /\ ~InvCalled("fi_ap.create")
    /\ inv_result.status \in {"three_way_mismatch", "pending_approval"} =>
           /\ inv_pc \in {"mismatch_approval", "done"}
           /\ ~InvCalled("fi_ap.create")
    /\ inv_result.status = "failed" => inv_pc = "done"
    /\ InvCalled("fi_ap.create") =>
           /\ inv_result.validation = "valid"
           /\ InvCalled("get_or_create_vendor")
           /\ inv_data.po_number =>
                  /\ inv_result.po_match.asked
                  /\ inv_result.po_match.is_match
                  /\ inv_result.three_way_match = "match"
           /\ inv_result.approval = "none"
           /\ inv_data.amount.v <= manager_approval_above

\* C24 witness: an invoice with a PO number has gone through every stage and
\* been posted.
C24_Witness ==
    /\ inv_pc = "done"
    /\ inv_result.status = "completed"
    /\ inv_calls = <<"extract", "_is_duplicate_invoice", "get_or_create_vendor",
                     "mm_po.read", "read_table", "fi_ap.create">>

\* C25: a create() that ends with the validation error has made no call to
\* the connector before it: no remote function call, no table read, no
\* commit and no rollback.
C25_ValidationBeforeRemote ==
    (/\ mod_last.op = "create"
     /\ mod_last.ret.kind = "raise"
     /\ mod_last.ret.what = "validation_error") =>
        mod_last.calls = << >>

\* C27: a request that reads get_tenant / get_company_code never gets the
\* tenant_id or company_code that a request already finished on the same
\* worker thread had set.
C27_NoLeakFromFinishedRequest ==
    [][\A r \in Requests \ SettingRequests :
          (tc_pc[r] = "get" /\ tc_pc'[r] = "done") =>
              \A q \in SettingRequests :
                  (tc_pc[q] = "done" /\ tc_worker[q] = tc_worker[r]) =>
                      /\ tc_seen'[r].tenant_id # TenantOf[q]
                      /\ tc_seen'[r].company_code # TenantOf[q]]_vars

\* C26: get_connector ends with the unknown-tenant error exactly when the
\* tenant id is not in the registry, and then makes no connector; for a
\* registered tenant it makes one connector, from that tenant's host and
\* client and from no other tenant's.
C26_ConnectorOfOwnTenant ==
    tm_last.op = "get_connector" =>
        LET t == tm_last.tenant_id
            unknown == /\ tm_last.ret.kind = "raise"
                       /\ tm_last.ret.what = "unknown_tenant"
        IN  /\ unknown <=> (t \notin DOMAIN tenants)
            /\ (t \notin DOMAIN tenants) => Len(tm_connectors) = tm_last.before
            /\ (t \in DOMAIN tenants) =>
                   /\ Len(tm_connectors) = tm_last.before + 1
                   /\ LET c == tm_connectors[Len(tm_connectors)].sap_config
                      IN  /\ c.host = tenants[t].sap_host
                          /\ c.client = tenants[t].sap_client
                          /\ \A o \in DOMAIN tenants \ {t} :
                                 /\ c.host # tenants[o].sap_host
                                 /\ c.client # tenants[o].sap_client

\* C26 witness: after a connector was made for company_b, a call for a tenant
\* that is not registered has ended with the unknown-tenant error and made
\* none.
C26_Witness ==
    /\ tm_last.op = "get_connector"
    /\ tm_last.tenant_id = "company_c"
    /\ tm_last.ret.kind = "raise"
    /\ tm_last.ret.what = "unknown_tenant"
    /\ tm_last.before = 1
    /\ Len(tm_connectors) = 1
    /\ tm_connectors[1].sap_config.host = tenants["company_b"].sap_host

\* C28: a call made while the breaker is open and at least the cooldown has
\* passed since the last failure, however long ago that was, is let through
\* as the half-open trial: the wrapped operation is invoked.
C28_ResetAfterAnyLongWait ==
    [][(/\ breaker.state = "open"
        /\ breaker.last_failure_time # NoFailureYet
        /\ cb_now - breaker.last_failure_time >= timeout
        /\ cb_now' = cb_now) =>
           /\ cb_last'.invoked
           /\ cb_hist' # cb_hist]_vars

\* Whether the variance of the invoice of the run from the expected amount is
\* over p percent of the expected amount (never, for an expected amount of 0).
VarianceOver(p) ==
    LET e == p2p_seen.expected_amount
        d == e - p2p_request.total_amount
    IN  e > 0 /\ (IF d < 0 THEN -d ELSE d) * 100 > p * e

DetectorConsulted ==
    \E i \in 1..Len(p2p_calls) : p2p_calls[i] = <<"anomaly_detector", "detect">>

\* C29: in a run whose verification has read the order, the anomaly detector
\* was consulted exactly if the variance is over 5 percent, and the
\* verification failed exactly if the variance is over 5 percent and the
\* detector reported an anomaly, or was unavailable with the variance over 10
\* percent; otherwise it passed.
C29_VerificationRule ==
    ("expected_amount" \in DOMAIN p2p_seen) =>
        /\ DetectorConsulted <=> VarianceOver(5)
        /\ (p2p_summary.status = "requires_review") <=>
               /\ VarianceOver(5)
               /\ \/ p2p_seen.detection = "anomaly"
                  \/ p2p_seen.detection = "raises" /\ VarianceOver(10)
        /\ (p2p_summary.status # "requires_review") => p2p_pc # "verify"

\* C29 witness: with the detector unavailable and a variance between 5 and 10
\* percent (100 invoiced against 108 expected) the verification has passed
\* and the run has gone on to posting the invoice.
C29_Witness ==
    /\ "expected_amount" \in DOMAIN p2p_seen
    /\ p2p_seen.expected_amount = 108
    /\ p2p_request.total_amount = 100
    /\ p2p_seen.detection = "raises"
    /\ DetectorConsulted
    /\ p2p_pc = "post_invoice"

\* C30: every record in a module's transaction list has a terminal status
\* (completed or failed), and a create() call that made a call to the remote
\* system has contributed exactly one record to the list.
C30_OneTerminalRecordPerCreate ==
    /\ \A m \in Modules : \A i \in 1..Len(transactions[m]) :
           transactions[m][i].status \in {"completed", "failed"}
    /\ (mod_last.op = "create" /\ mod_last.calls # << >>) =>
           Len(LastLogged) = 1

\* A run that got as far as the approval test of step 7: the vendor was
\* resolved, and both matches succeeded where a PO number made them apply.
AtApprovalTest ==
    /\ inv_pc \in {"post", "done"}
    /\ InvCalled("get_or_create_vendor")
    /\ "get_or_create_vendor" \notin inv_failed
    /\ inv_data.po_number => inv_result.three_way_match = "match"

InvCount(c) == Cardinality({i \in 1..Len(inv_calls) : inv_calls[i] = c})

\* C32: the 3-way match of an invoice whose order matched succeeds only on a
\* table read that answered with goods-receipt documents; after a success
\* the run goes on to the approval test, and after a failure it ends with
\* status three_way_mismatch, one approval request sent and nothing posted.
C32_ThreeWayMatchDecides ==
    inv_runs > 0 =>
    /\ inv_result.three_way_match = "match" =>
           /\ "read_table" \notin inv_failed
           /\ inv_pc \in {"approval_check", "post", "done"}
           /\ inv_result.status # "three_way_mismatch"
    /\ (inv_pc = "done" /\ inv_result.three_way_match = "mismatch") =>
           /\ inv_result.status = "three_way_mismatch"
           /\ InvCount("_send_approval_notification") = 1
           /\ ~InvCalled("fi_ap.create")

\* The breaker as the wrapped function sees it during a call entered at
\* clock reading t: half_open where the call went through the reset test.
DuringCall(b, t) ==
    IF b.state = "open" /\ _should_attempt_reset(b, t)
    THEN [b EXCEPT !.state = "half_open"]
    ELSE b

\* The state of a breaker agrees with its failure count.
StateAgreesWithCount(b) ==
    /\ b.state = "closed" => b.failures < failure_threshold
    /\ b.state \in {"open", "half_open"} =>
           /\ b.failures >= failure_threshold
           /\ b.last_failure_time # NoFailureYet

\* C33: with one caller at a time, a closed breaker has fewer failures than
\* the threshold, and an open or half-open one has at least the threshold
\* and a last failure time; between calls and during the trial call alike.
C33_StateAgreesWithCount ==
    /\ StateAgreesWithCount(breaker)
    /\ StateAgreesWithCount(DuringCall(breaker, cb_now))

\* C33 witness: a half-open trial has failed, and the breaker is open again
\* with more failures than the threshold and the cooldown over once more.
C33_Witness ==
    /\ cb_last.op = "call" /\ cb_last.was = "open" /\ cb_last.invoked
    /\ breaker.state = "open"
    /\ breaker.failures > failure_threshold
    /\ DuringCall(breaker, cb_now).state = "half_open"

\* C34: a call that the open breaker rejects (the clock does not move and the
\* wrapped function is not invoked) leaves the breaker's state, failure count
\* and last failure time as they were.
C34_RejectionChangesNothing ==
    [][(cb_now' = cb_now /\ cb_steps' = cb_steps /\ cb_hist' = cb_hist) =>
           breaker' = breaker]_vars

\* C34 witness: a call made some time after the last failure, but before the
\* end of the cooldown, has been rejected by the open breaker.
C34_Witness ==
    /\ cb_last.op = "call" /\ ~cb_last.invoked
    /\ cb_last.raised = "circuit_open"
    /\ breaker.state = "open"
    /\ cb_last.at > breaker.last_failure_time

\* C35: under concurrent callers, when a call that was admitted while the
\* breaker was closed returns successfully after the breaker has opened, its
\* success handling leaves the breaker open and the failure count as it was.
C35_LateSuccessKeepsOpen ==
    [][\A t \in Threads :
          (/\ ~cc_loc[t].trial
           /\ cc_breaker.state = "open"
           /\ \/ cc_pc[t] = "invoke" /\ cc_pc'[t] = "on_success_state"
              \/ cc_pc[t] = "on_success_state" /\ cc_pc'[t] = "idle") =>
              /\ cc_breaker'.state = "open"
              /\ cc_breaker'.failures = cc_breaker.failures]_vars

\* C36: in any stretch of time, the calls of one client that were admitted
\* number at most capacity + (length of the stretch) x refill_rate.  It is
\* enough to look at the stretches that begin and end with an admitted call.
\* Tokens are counted in sixtieths, as in the bucket.
C36_AdmissionsBoundedInWindow ==
    \A i, j \in 1..Len(win_admitted) :
        i <= j =>
            (j - i + 1) * SecondsPerMinute
                <= capacity * SecondsPerMinute
                   + (win_admitted[j] - win_admitted[i]) * refill_rate

\* C36 witness: more calls than the capacity have been admitted, the bound is
\* met exactly over a stretch of time that is longer than nothing and shorter
\* than the inactivity window, and an idle hour has gone by as well.
C36_Witness ==
    /\ Len(win_admitted) > capacity + 1
    /\ \E i, j \in 1..Len(win_admitted) :
          /\ i < j
          /\ win_admitted[j] > win_admitted[i]
          /\ win_admitted[j] - win_admitted[i] < InactiveSeconds
          /\ (j - i + 1) * SecondsPerMinute
                 = capacity * SecondsPerMinute
                   + (win_admitted[j] - win_admitted[i]) * refill_rate
    /\ win_idles > 0

\* C37: once execute has returned, the status that get_workflow_status
\* reports is completed or failed, and it is the status of the returned
\* summary.
C37_ReturnedStatusTerminal ==
    (p2p_pc = "returned") =>
        /\ p2p_status \in {"completed", "failed"}
        /\ p2p_status = p2p_summary.status

\* The returned summary names the step s among its completed steps.
StepCompleted(s) ==
    \E i \in 1..Len(p2p_summary.steps_completed) :
        p2p_summary.steps_completed[i] = s

\* C38: in the summary that execute returns, each document is there exactly if
\* its step is among the completed steps, and a later document is there only
\* with every earlier one: payment_document only with invoice_document, that
\* only with material_document, that only with po_number.
C38_DocumentsMatchSteps ==
    (p2p_pc = "returned") =>
        LET docs == p2p_summary.documents
        IN  /\ ("po_number" \in docs) <=> StepCompleted("po_created")
            /\ ("material_document" \in docs) <=> StepCompleted("goods_received")
            /\ ("invoice_document" \in docs) <=> StepCompleted("invoice_posted")
            /\ ("payment_document" \in docs) <=> StepCompleted("payment_processed")
            /\ ("payment_document" \in docs) => ("invoice_document" \in docs)
            /\ ("invoice_document" \in docs) => ("material_document" \in docs)
            /\ ("material_document" \in docs) => ("po_number" \in docs)

\* C38 witness: a run that failed at the payment has returned the three
\* earlier documents with their three steps.
C38_Witness ==
    /\ p2p_pc = "returned"
    /\ p2p_summary.status = "failed"
    /\ p2p_summary.documents = {"po_number", "material_document", "invoice_document"}
    /\ p2p_summary.steps_completed = <<"po_created", "goods_received", "invoice_posted">>

\* The place of the first call named c among the calls of the last operation,
\* 0 where it was not made.
FirstCall(c) ==
    IF \E i \in 1..Len(mod_last.calls) : mod_last.calls[i] = c
    THEN CHOOSE i \in 1..Len(mod_last.calls) :
             /\ mod_last.calls[i] = c
             /\ \A j \in 1..(i - 1) : mod_last.calls[j] # c
    ELSE 0

\* C39: a create() that returns a document number has issued the commit after
\* the posting call, the commit went through, and exactly one record, with
\* status completed and that document number, was appended; a create() whose
\* commit failed returns no document number and appends no record.
C39_DocumentOnlyAfterCommit ==
    (mod_last.op = "create") =>
        /\ (mod_last.ret.kind = "return") =>
               /\ 0 < FirstCall("post")
               /\ FirstCall("post") < FirstCall("commit")
               /\ ~mod_last.commit_fails
               /\ LastLogged = <<SAPTransaction(mod_last.module, "completed",
                                                 mod_last.ret.value)>>
        /\ mod_last.commit_fails =>
               /\ mod_last.ret.kind = "raise"
               /\ LastLogged = << >>

\* C39 witness: after a create() that returned its document number and left
\* its completed record, a second create() on the same module posted, failed
\* at the commit, and left the list as it was.
C39_Witness ==
    /\ mod_last.op = "create"
    /\ mod_last.commit_fails
    /\ mod_last.post_answered
    /\ mod_last.ret.kind = "raise"
    /\ mod_last.before = 1
    /\ transactions[mod_last.module] =
           <<SAPTransaction(mod_last.module, "completed", DocNumber)>>

\* C40: a finished run for an invoice above the approval threshold has made
\* no posting call and has no sap_document, and it ended at pending_approval
\* or, before the approval test was reached, at a status other than
\* completed; and a finished run has status completed exactly if a posting
\* call has set its sap_document.
C40_AboveThresholdNeverPosted ==
    (inv_pc = "done") =>
        /\ (/\ inv_data.amount.kind = "number"
            /\ inv_data.amount.v > manager_approval_above) =>
               /\ ~InvCalled("fi_ap.create")
               /\ inv_result.sap_document = "none"
               /\ \/ inv_result.status = "pending_approval"
                  \/ /\ ~AtApprovalTest
                     /\ inv_result.status \in {"requires_manual_review", "po_mismatch",
                                               "three_way_mismatch", "failed"}
        /\ (inv_result.status = "completed") <=>
               (InvCalled("fi_ap.create") /\ inv_result.sap_document # "none")

====
